---- MODULE Spec2Model ----
(***************************************************************************)
(* The codex-memory item store: the JSONL (append-file) backend and the    *)
(* SQLite (relational) backend behind the MemoryStore trait, driven in     *)
(* lockstep by the same sequence of public calls.                          *)
(***************************************************************************)
EXTENDS Integers, Sequences, FiniteSets, TLC

\* ------------------------------------------------------------------ bounds
MaxFile == 2      \* lines the JSONL file may hold before add is no longer called
MaxTime == 2      \* timestamps are 1..MaxTime (RFC 3339 strings, one offset)
MaxStream == 1    \* lines of the import streams the stores are driven with

\* ------------------------------------------------------------------ types
None == <<>>
Some(x) == <<x>>

Ids == {"a", "b"}
Times == 1..MaxTime
Scope == {"Global", "Repo", "Dir"}
Status == {"Active", "Archived"}
Kind == {"Pref", "Fact", "Profile", "Instruction", "Note"}

Counters0 == [seen_count |-> 0, used_count |-> 0, last_used_at |-> None]
RelevanceHints0 == [files |-> <<>>, crates |-> <<>>, languages |-> <<>>, commands |-> <<>>]
Expiry1 == [ttl_secs |-> Some(60), review_after |-> None]

MemoryItem(id, t, v, sc, st) ==
  [id |-> id, created_at |-> 1, updated_at |-> t,
   schema_version |-> IF v = 1 THEN 1 ELSE 7,
   source |-> IF v = 1 THEN "codex-cli" ELSE "test",
   scope |-> sc, status |-> st,
   kind |-> IF v = 1 THEN "Note" ELSE "Pref",
   content |-> IF v = 1 THEN "x" ELSE "y",
   tags |-> IF v = 1 THEN <<>> ELSE <<"tag">>,
   relevance_hints |-> RelevanceHints0,
   counters |-> Counters0,
   expiry |-> IF v = 1 THEN None ELSE Some(Expiry1)]

\* The (id, updated_at) pairs of the items callers write: id "a" at every
\* time, id "b" at time 1.
Stamps == {p \in Ids \X Times : p[1] = "a" \/ p[2] = 1}

\* Items a caller passes to add / update.  An item written at an odd time is
\* a repo-scoped active note (what the CLI creates); one written at an even
\* time is an archived global preference that carries an expiry.
Items ==
  {MemoryItem(p[1], p[2], 1, "Repo", "Active") : p \in {q \in Stamps : q[2] % 2 = 1}}
    \cup {MemoryItem(p[1], p[2], 2, "Global", "Archived") :
             p \in {q \in Stamps : q[2] % 2 = 0}}

\* Items written into an import stream: dir-scoped, from another store.
StreamItems == {MemoryItem(id, 1, 2, "Dir", "Active") : id \in Ids}

\* ------------------------------------------------------- sequence helpers
Range(s) == {s[i] : i \in 1..Len(s)}

Map(s, F(_)) == [i \in 1..Len(s) |-> F(s[i])]

\* all orderings of a finite set
Perms(S) ==
  {s \in [1..Cardinality(S) -> S] : \A i, j \in 1..Cardinality(S) : i # j => s[i] # s[j]}

\* sequences over S of length at most n
SeqUpTo(S, n) == UNION {[1..k -> S] : k \in 0..n}

SortedDesc(s) ==
  \A i, j \in 1..Len(s) : i < j => s[i].updated_at >= s[j].updated_at

\* ------------------------------------------------- the line encoding (serde)
\* serde_json::to_string(&item): one JSON object on one line
to_string(item) == [tag |-> "json", body |-> item]
BlankLine == [tag |-> "blank"]
BadLine == [tag |-> "bad"]

\* serde_json::from_str::<MemoryItem>(line): Some(item), or None on an error
from_str(line) == IF line.tag = "json" THEN Some(line.body) ELSE None

\* line.trim().is_empty()
is_blank(line) == line.tag = "blank"

\* ----------------------------------------------------- JsonlMemoryStore
\* The file is a sequence of lines.  Every operation returns Ok(..) unless an
\* I/O error occurs; I/O errors are not modelled, so the Jsonl operators
\* below give the new file (or the value read) of the Ok outcome.

\* read_all: skip blank lines, skip lines that do not parse
read_all(f) ==
  LET good == SelectSeq(f, LAMBDA l : ~is_blank(l) /\ from_str(l) # None)
  IN  [i \in 1..Len(good) |-> from_str(good[i])[1]]

\* write_all: one line per item
write_all(items) == Map(items, to_string)

\* add: append one line; an id already in the file is not looked for
JsonlAdd(f, item) == Append(f, to_string(item))

\* update: replace every record with the id, rewrite the file; always Ok
JsonlUpdate(f, item) ==
  write_all(Map(read_all(f), LAMBDA it : IF it.id = item.id THEN item ELSE it))

\* (variant: only the first record with the id is removed)
JsonlDelete_FirstOnly(f, id) ==
  LET items == read_all(f)
      hit == {i \in 1..Len(items) : items[i].id = id}
  IN  IF hit = {} THEN write_all(items)
      ELSE LET k == CHOOSE i \in hit : \A j \in hit : i <= j
           IN  write_all(SubSeq(items, 1, k - 1) \o SubSeq(items, k + 1, Len(items)))

JsonlDelete(f, id) ==
  write_all(SelectSeq(read_all(f), LAMBDA i : i.id # id))

\* get: the first record of the file with the id
JsonlGet(f, id) ==
  LET m == SelectSeq(read_all(f), LAMBDA i : i.id = id)
  IN  IF m = <<>> THEN None ELSE Some(m[1])

\* list: scope and status are Options; the items stay in file order
JsonlList(f, scope, status) ==
  LET items == read_all(f)
      r1 == IF scope # None
            THEN SelectSeq(items, LAMBDA i : i.scope = scope[1]) ELSE items
  IN  IF status # None
      THEN SelectSeq(r1, LAMBDA i : i.status = status[1]) ELSE r1

\* (variant: the status of every record is set, whatever its id)
JsonlArchive_NoIdCheck(f, id, archived) ==
  write_all(Map(read_all(f),
                LAMBDA it : [it EXCEPT !.status =
                               IF archived THEN "Archived" ELSE "Active"]))

\* archive: set the status of every record with the id; always Ok
JsonlArchive(f, id, archived) ==
  write_all(Map(read_all(f),
                LAMBDA it : IF it.id = id
                            THEN [it EXCEPT !.status =
                                    IF archived THEN "Archived" ELSE "Active"]
                            ELSE it))

\* export: the lines written to the writer
JsonlExport(f) == Map(read_all(f), to_string)

\* the HashMap<String, MemoryItem> built by inserting the items in order
RECURSIVE InsertAll(_, _)
InsertAll(map, items) ==
  IF items = <<>> THEN map
  ELSE InsertAll([id \in DOMAIN map \cup {items[1].id} |->
                    IF id = items[1].id THEN items[1] ELSE map[id]],
                 Tail(items))

\* the records import parses from the stream, in stream order
Parsed(data) ==
  LET good == SelectSeq(data, LAMBDA l : ~is_blank(l) /\ from_str(l) # None)
  IN  [i \in 1..Len(good) |-> from_str(good[i])[1]]

EmptyMap == [id \in {} |-> None]

\* import: the outcomes [file, count].  into_values() yields the map in an
\* arbitrary order and the sort is stable, so every updated_at-descending
\* order of the map's values is a possible file.
JsonlImport(f, data) ==
  LET map == InsertAll(InsertAll(EmptyMap, read_all(f)), Parsed(data))
      vals == {map[id] : id \in DOMAIN map}
  IN  {[file |-> write_all(s), count |-> Len(Parsed(data))] :
         s \in {p \in Perms(vals) : SortedDesc(p)}}

\* stats that counts the lines of the file instead of the records read
JsonlStats_RawLines(f) ==
  LET items == read_all(f)
      N(P(_)) == Len(SelectSeq(items, P))
  IN  [total |-> Len(f),
       active |-> N(LAMBDA i : i.status = "Active"),
       archived |-> N(LAMBDA i : i.status = "Archived"),
       by_scope |-> [global |-> N(LAMBDA i : i.scope = "Global"),
                     repo |-> N(LAMBDA i : i.scope = "Repo"),
                     dir |-> N(LAMBDA i : i.scope = "Dir")]]

JsonlStats(f) ==
  LET items == read_all(f)
      N(P(_)) == Len(SelectSeq(items, P))
  IN  [total |-> Len(items),
       active |-> N(LAMBDA i : i.status = "Active"),
       archived |-> N(LAMBDA i : i.status = "Archived"),
       by_scope |-> [global |-> N(LAMBDA i : i.scope = "Global"),
                     repo |-> N(LAMBDA i : i.scope = "Repo"),
                     dir |-> N(LAMBDA i : i.scope = "Dir")]]

\* ---------------------------------------------------- SqliteMemoryStore
\* The table memory_items is a set of rows; id is its PRIMARY KEY.
U16Max == 65535

Ok(v) == [ok |-> TRUE, val |-> v]
Err == [ok |-> FALSE]

scope_as_str(s) ==
  CASE s = "Global" -> "global" [] s = "Repo" -> "repo" [] s = "Dir" -> "dir"

status_as_str(s) ==
  CASE s = "Active" -> "active" [] s = "Archived" -> "archived"

kind_as_str(k) ==
  CASE k = "Pref" -> "pref" [] k = "Fact" -> "fact" [] k = "Profile" -> "profile"
    [] k = "Instruction" -> "instruction" [] k = "Note" -> "note"

parse_scope(s) ==
  CASE s = "global" -> Some("Global") [] s = "repo" -> Some("Repo")
    [] s = "dir" -> Some("Dir") [] OTHER -> None

parse_status(s) ==
  CASE s = "active" -> Some("Active") [] s = "archived" -> Some("Archived")
    [] OTHER -> None

parse_kind(s) ==
  CASE s = "pref" -> Some("Pref") [] s = "fact" -> Some("Fact")
    [] s = "profile" -> Some("Profile") [] s = "instruction" -> Some("Instruction")
    [] s = "note" -> Some("Note") [] OTHER -> None

\* the JSON text of a list- or object-shaped field, and its decoding
json_text(v) == [json |-> v]
json_value(s) == s.json

item_to_cols(item) ==
  [id |-> item.id, created_at |-> item.created_at, updated_at |-> item.updated_at,
   schema_version |-> item.schema_version,          \* i64::from(u16)
   source |-> item.source,
   scope |-> scope_as_str(item.scope),
   status |-> status_as_str(item.status),
   kind |-> kind_as_str(item.kind),
   content |-> item.content,
   tags_json |-> json_text(item.tags),
   relevance_hints_json |-> json_text(item.relevance_hints),
   counters_json |-> json_text(item.counters),
   expiry_json |-> IF item.expiry = None THEN None
                   ELSE Some(json_text(item.expiry[1]))]

\* row_to_item: Ok(item), or Err when an enumeration column does not decode
row_to_item(row) ==
  IF parse_scope(row.scope) = None \/ parse_status(row.status) = None
       \/ parse_kind(row.kind) = None
  THEN Err
  ELSE Ok([id |-> row.id, created_at |-> row.created_at,
           updated_at |-> row.updated_at,
           schema_version |->                      \* u16::try_from(..).unwrap_or(1)
             IF row.schema_version >= 0 /\ row.schema_version <= U16Max
             THEN row.schema_version ELSE 1,
           source |-> row.source,
           scope |-> parse_scope(row.scope)[1],
           status |-> parse_status(row.status)[1],
           kind |-> parse_kind(row.kind)[1],
           content |-> row.content,
           tags |-> json_value(row.tags_json),
           relevance_hints |-> json_value(row.relevance_hints_json),
           counters |-> json_value(row.counters_json),
           expiry |-> IF row.expiry_json = None THEN None
                      ELSE Some(json_value(row.expiry_json[1]))])

\* add: INSERT; a row with the id makes the PRIMARY KEY constraint fail
SqliteAdd(d, item) ==
  IF \E r \in d : r.id = item.id
  THEN [ok |-> FALSE, db |-> d]
  ELSE [ok |-> TRUE, db |-> d \cup {item_to_cols(item)}]

\* update: UPDATE .. WHERE id; n = 0 rows is the error "id not found"
SqliteUpdate(d, item) ==
  IF {r \in d : r.id = item.id} = {}
  THEN [ok |-> FALSE, db |-> d]
  ELSE [ok |-> TRUE,
        db |-> {IF r.id = item.id THEN item_to_cols(item) ELSE r : r \in d}]

SqliteDelete(d, id) == [ok |-> TRUE, db |-> {r \in d : r.id # id}]

\* get: query_row(..).optional()
SqliteGet(d, id) ==
  IF {r \in d : r.id = id} = {} THEN Ok(None)
  ELSE LET it == row_to_item(CHOOSE r \in d : r.id = id)
       IN  IF it.ok THEN Ok(Some(it.val)) ELSE Err

\* list: the possible results.  ORDER BY updated_at DESC fixes the order up
\* to rows of equal updated_at, whose order SQL leaves open.
SqliteList(d, scope, status) ==
  LET rows == {r \in d :
                 /\ scope # None => r.scope = scope_as_str(scope[1])
                 /\ status # None => r.status = status_as_str(status[1])}
  IN  {IF \E i \in 1..Len(p) : ~row_to_item(p[i]).ok THEN Err
       ELSE Ok([i \in 1..Len(p) |-> row_to_item(p[i]).val]) :
         p \in {q \in Perms(rows) : SortedDesc(q)}}

\* (variant: the flag is ignored and the row is always archived)
SqliteArchive_AlwaysArchived(d, id, archived) ==
  IF {r \in d : r.id = id} = {}
  THEN [ok |-> FALSE, db |-> d]
  ELSE [ok |-> TRUE,
        db |-> {IF r.id = id THEN [r EXCEPT !.status = "archived"] ELSE r : r \in d}]

\* archive: UPDATE .. SET status WHERE id; n = 0 rows is "id not found"
SqliteArchive(d, id, archived) ==
  IF {r \in d : r.id = id} = {}
  THEN [ok |-> FALSE, db |-> d]
  ELSE [ok |-> TRUE,
        db |-> {IF r.id = id
                THEN [r EXCEPT !.status = IF archived THEN "archived" ELSE "active"]
                ELSE r : r \in d}]

\* export: the possible outputs, one line per row in list order
SqliteExport(d) ==
  {IF l.ok THEN Ok(Map(l.val, to_string)) ELSE Err : l \in SqliteList(d, None, None)}

\* an upsert that keeps a stored row whose updated_at is greater
Upsert_KeepNewer(d, item) ==
  IF \E r \in d : r.id = item.id /\ r.updated_at > item.updated_at
  THEN d
  ELSE {r \in d : r.id # item.id} \cup {item_to_cols(item)}

\* INSERT .. ON CONFLICT(id) DO UPDATE SET every other column
Upsert(d, item) == {r \in d : r.id # item.id} \cup {item_to_cols(item)}

\* the import loop inside the transaction: [ok, db, count]
RECURSIVE ImportLoop(_, _, _)
ImportLoop(d, data, count) ==
  IF data = <<>> THEN [ok |-> TRUE, db |-> d, count |-> count]
  ELSE IF is_blank(data[1]) THEN ImportLoop(d, Tail(data), count)
  ELSE IF from_str(data[1]) = None THEN [ok |-> FALSE, db |-> d, count |-> count]
  ELSE ImportLoop(Upsert(d, from_str(data[1])[1]), Tail(data), count + 1)

\* import that commits whatever the loop wrote before the error
SqliteImport_NoRollback(d, data) == ImportLoop(d, data, 0)

\* import: commit when the loop ends Ok; an error drops the transaction
SqliteImport(d, data) ==
  LET r == ImportLoop(d, data, 0)
  IN  IF r.ok THEN r ELSE [ok |-> FALSE, db |-> d, count |-> 0]

SqliteStats(d) ==
  LET N(P(_)) == Cardinality({r \in d : P(r)})
  IN  [total |-> Cardinality(d),
       active |-> N(LAMBDA r : r.status = "active"),
       archived |-> N(LAMBDA r : r.status = "archived"),
       by_scope |-> [global |-> N(LAMBDA r : r.scope = "global"),
                     repo |-> N(LAMBDA r : r.scope = "repo"),
                     dir |-> N(LAMBDA r : r.scope = "dir")]]

\* ------------------------------------------------------------ the system
\* One JSONL store and one SQLite store receive the same public calls.
\*   file  the lines of memory.jsonl
\*   db    the rows of memory_items
\*   last  the last call: its name, the id it names, and whether each
\*         backend returned Ok
VARIABLES file, db, last

vars == <<file, db, last>>

Call(op, id, okS) ==
  [op |-> op, id |-> id, okJ |-> TRUE, okS |-> okS]

\* the lines an import stream is made of
StreamLines == {BlankLine, BadLine} \cup {to_string(i) : i \in StreamItems}
Streams == SeqUpTo(StreamLines, MaxStream)

\* the streams import is examined on as a function of (store, stream)
AnyLines == StreamLines \cup {to_string(i) : i \in Items}
AnyStreams == SeqUpTo(AnyLines, MaxStream + 1)

Init ==
  /\ file = <<>>
  /\ db = {}
  /\ last = [op |-> "new", id |-> "-", okJ |-> TRUE, okS |-> TRUE]

Add(item) ==
  /\ Len(file) < MaxFile
  /\ file' = JsonlAdd(file, item)
  /\ db' = SqliteAdd(db, item).db
  /\ last' = Call("add", item.id, SqliteAdd(db, item).ok)

Update(item) ==
  /\ file' = JsonlUpdate(file, item)
  /\ db' = SqliteUpdate(db, item).db
  /\ last' = Call("update", item.id, SqliteUpdate(db, item).ok)

Delete(id) ==
  /\ file' = JsonlDelete(file, id)
  /\ db' = SqliteDelete(db, id).db
  /\ last' = Call("delete", id, SqliteDelete(db, id).ok)

Archive(id, archived) ==
  /\ file' = JsonlArchive(file, id, archived)
  /\ db' = SqliteArchive(db, id, archived).db
  /\ last' = Call(IF archived THEN "archive" ELSE "unarchive", id,
                  SqliteArchive(db, id, archived).ok)

Import(data) ==
  \E res \in JsonlImport(file, data) :
    /\ file' = res.file
    /\ db' = SqliteImport(db, data).db
    /\ last' = Call("import", "-", SqliteImport(db, data).ok)

Next ==
  \/ \E item \in Items : Add(item)
  \/ \E item \in Items : Update(item)
  \/ \E id \in Ids : Delete(id)
  \/ \E id \in Ids, archived \in BOOLEAN : Archive(id, archived)
  \/ \E data \in Streams : Import(data)

Spec == Init /\ [][Next]_vars

\* every line of the file parses, as every writer above leaves it
TypeOK ==
  /\ \A i \in 1..Len(file) : file[i].tag = "json"
  /\ \A r \in db : row_to_item(r).ok
  /\ last.op \in {"new", "add", "update", "delete", "archive", "unarchive", "import"}

\* Stores built by add / update / archive / delete alone.
NextCrud ==
  \/ \E item \in Items : Add(item)
  \/ \E item \in Items : Update(item)
  \/ \E id \in Ids : Delete(id)
  \/ \E id \in Ids, archived \in BOOLEAN : Archive(id, archived)

SpecCrud == Init /\ [][NextCrud]_vars

\* Call sequences that never add an id already present and import only
\* well-formed streams.
AddNew(item) ==
  /\ JsonlGet(file, item.id) = None
  /\ SqliteGet(db, item.id) = Ok(None)
  /\ Add(item)

WellFormed(data) == \A i \in 1..Len(data) : data[i] # BadLine

ImportWellFormed(data) == WellFormed(data) /\ Import(data)

NextNoDup ==
  \/ \E item \in Items : AddNew(item)
  \/ \E item \in Items : Update(item)
  \/ \E id \in Ids : Delete(id)
  \/ \E id \in Ids, archived \in BOOLEAN : Archive(id, archived)
  \/ \E data \in Streams : ImportWellFormed(data)

SpecNoDup == Init /\ [][NextNoDup]_vars

\* ------------------------------------------------------------ the claims
OptScope == {None} \cup {Some(s) : s \in Scope}
OptStatus == {None} \cup {Some(s) : s \in Status}

IdsOf(items) == {items[i].id : i \in 1..Len(items)}

\* C1 -- Round-trip: exporting a store built by add/update/archive/delete and
\* importing the output into an empty store of the same backend gives a
\* store with the same ids in which get(id) returns the same record, every
\* field included, for every id.
C1_RoundTripJsonl ==
  \A res \in JsonlImport(<<>>, JsonlExport(file)) :
    /\ IdsOf(read_all(res.file)) = IdsOf(read_all(file))
    /\ \A id \in Ids : JsonlGet(res.file, id) = JsonlGet(file, id)

C1_RoundTripSqlite ==
  \A out \in SqliteExport(db) :
    /\ out.ok
    /\ SqliteImport({}, out.val).ok
    /\ {r.id : r \in SqliteImport({}, out.val).db} = {r.id : r \in db}
    /\ \A id \in Ids : SqliteGet(SqliteImport({}, out.val).db, id) = SqliteGet(db, id)

C1_RoundTrip == C1_RoundTripJsonl /\ C1_RoundTripSqlite

\* C2 -- Backend equivalence: after every call of a sequence that never adds
\* an id already present, both backends returned the same outcome for the
\* call and give the same get(id) for every id, the same list(scope, status)
\* for every filter (same items, same order; among rows of equal updated_at
\* any order the relational backend may return counts) and the same stats().
C2_BackendEquivalence ==
  /\ last.okJ = last.okS
  /\ \A id \in Ids : Ok(JsonlGet(file, id)) = SqliteGet(db, id)
  /\ \A sc \in OptScope, st \in OptStatus :
       Ok(JsonlList(file, sc, st)) \in SqliteList(db, sc, st)
  /\ JsonlStats(file) = SqliteStats(db)

\* C3 -- Id uniqueness: in every reachable state list(None, None) holds at
\* most one item per id, on each backend.
NoDupIds(items) ==
  \A i, j \in 1..Len(items) : i # j => items[i].id # items[j].id

C3_IdUnique ==
  /\ NoDupIds(JsonlList(file, None, None))
  /\ \A l \in SqliteList(db, None, None) : l.ok /\ NoDupIds(l.val)

\* C4 -- On the file backend, right after an add (also one of an id already
\* in the file, which the append accepts), get(id) returns the record just
\* added: the newest record for that id.
C4_GetNewest ==
  last.op = "add" =>
    JsonlGet(file, last.id) = Some(read_all(file)[Len(read_all(file))])

\* C5 -- update(item) and archive(id, b) on an id that is not in the store
\* fail (not-found) and leave the store contents unchanged, on both backends.
C5_step ==
  last'.op \in {"update", "archive", "unarchive"} =>
    /\ JsonlGet(file, last'.id) = None =>
         ~last'.okJ /\ read_all(file') = read_all(file)
    /\ SqliteGet(db, last'.id) = Ok(None) =>
         ~last'.okS /\ db' = db

C5_NotFound == [][C5_step]_vars

\* C6 -- list(scope, status) returns exactly the stored items matching both
\* filters, ordered by updated_at descending, and export writes all items in
\* updated_at-descending order, on both backends.
Matches(it, sc, st) ==
  /\ sc # None => it.scope = sc[1]
  /\ st # None => it.status = st[1]

C6_ListFilteredSorted ==
  /\ \A sc \in OptScope, st \in OptStatus :
       /\ Range(JsonlList(file, sc, st)) = {it \in Range(read_all(file)) : Matches(it, sc, st)}
       /\ SortedDesc(JsonlList(file, sc, st))
       /\ \A l \in SqliteList(db, sc, st) :
            /\ l.ok
            /\ Range(l.val) = {row_to_item(r).val : r \in {q \in db : Matches(row_to_item(q).val, sc, st)}}
            /\ Len(l.val) = Cardinality(Range(l.val))
            /\ SortedDesc(l.val)
  /\ SortedDesc(Map(JsonlExport(file), LAMBDA l : from_str(l)[1]))
  /\ \A out \in SqliteExport(db) :
       out.ok /\ SortedDesc(Map(out.val, LAMBDA l : from_str(l)[1]))

\* C7 -- Idempotent delete: after delete(x), get(x) is None and the records
\* of all other ids are unchanged; when x was not present the results of
\* get, list and stats are unchanged; a second delete(x) leaves the store
\* the first delete(x) left.  On both backends.
C7_step ==
  last'.op = "delete" =>
    LET x == last'.id IN
    /\ last'.okJ /\ last'.okS
    /\ JsonlGet(file', x) = None
    /\ SqliteGet(db', x) = Ok(None)
    /\ \A y \in Ids \ {x} :
         JsonlGet(file', y) = JsonlGet(file, y) /\ SqliteGet(db', y) = SqliteGet(db, y)
    /\ JsonlGet(file, x) = None =>
         /\ \A sc \in OptScope, st \in OptStatus :
              JsonlList(file', sc, st) = JsonlList(file, sc, st)
         /\ JsonlStats(file') = JsonlStats(file)
    /\ SqliteGet(db, x) = Ok(None) =>
         /\ \A sc \in OptScope, st \in OptStatus :
              SqliteList(db', sc, st) = SqliteList(db, sc, st)
         /\ SqliteStats(db') = SqliteStats(db)
    /\ JsonlDelete(file', x) = file'
    /\ SqliteDelete(db', x) = [ok |-> TRUE, db |-> db']

C7_IdempotentDelete == [][C7_step]_vars

\* a delete has run and left records of another id in both stores
C7_Witness ==
  /\ last.op = "delete"
  /\ \E y \in Ids \ {last.id} : JsonlGet(file, y) # None /\ SqliteGet(db, y) # Ok(None)

\* C8 -- archive(id, b) changes nothing in the store except the status field
\* of the record with that id: its other fields and the records of other
\* ids are unchanged, and no record is created when the id is absent.
SameButStatus(new, old) == [new EXCEPT !.status = old.status] = old

C8_step ==
  last'.op \in {"archive", "unarchive"} =>
    LET x == last'.id
        was == read_all(file)
        now == read_all(file')
    IN
    /\ Len(now) = Len(was)
    /\ \A i \in 1..Len(was) :
         IF was[i].id = x THEN SameButStatus(now[i], was[i]) ELSE now[i] = was[i]
    /\ {r.id : r \in db'} = {r.id : r \in db}
    /\ \A y \in Ids :
         IF SqliteGet(db, y) = Ok(None) \/ y # x
         THEN SqliteGet(db', y) = SqliteGet(db, y)
         ELSE /\ SqliteGet(db', y).ok
              /\ SqliteGet(db', y).val # None
              /\ SameButStatus(SqliteGet(db', y).val[1], SqliteGet(db, y).val[1])
    /\ JsonlGet(file, x) = None => JsonlGet(file', x) = None

C8_ArchiveFrame == [][C8_step]_vars

\* an archive has run on an id both stores hold, next to another record
C8_Witness ==
  /\ last.op = "archive" /\ last.okS
  /\ JsonlGet(file, last.id) # None
  /\ JsonlGet(file, last.id)[1].status = "Archived"
  /\ SqliteGet(db, last.id).val[1].status = "Archived"
  /\ \E y \in Ids \ {last.id} : JsonlGet(file, y) # None

\* C9 -- Archive toggle.  The step archive(x, true) on an existing active
\* item, and the step archive(x, false) that follows an archive(x, true) of
\* the same existing item.
ToggleStepJ ==
  /\ JsonlGet(file, last'.id) # None
  /\ \/ last'.op = "archive" /\ JsonlGet(file, last'.id)[1].status = "Active"
     \/ last'.op = "unarchive" /\ last.op = "archive" /\ last.id = last'.id

ToggleStepS ==
  /\ SqliteGet(db, last'.id) # Ok(None)
  /\ \/ last'.op = "archive" /\ SqliteGet(db, last'.id).val[1].status = "Active"
     \/ last'.op = "unarchive" /\ last.op = "archive" /\ last.id = last'.id

Requested == IF last'.op = "archive" THEN "Archived" ELSE "Active"

\* C9 as claimed: the toggle ends with status active, and updated_at is
\* strictly greater after each of the two archive calls.
C9_orig_step ==
  /\ ToggleStepJ =>
       /\ JsonlGet(file', last'.id)[1].status = Requested
       /\ JsonlGet(file', last'.id)[1].updated_at > JsonlGet(file, last'.id)[1].updated_at
  /\ ToggleStepS =>
       /\ SqliteGet(db', last'.id).val[1].status = Requested
       /\ SqliteGet(db', last'.id).val[1].updated_at > SqliteGet(db, last'.id).val[1].updated_at

C9_step ==
  /\ ToggleStepJ =>
       /\ JsonlGet(file', last'.id)[1].status = Requested
       /\ JsonlGet(file', last'.id)[1].updated_at = JsonlGet(file, last'.id)[1].updated_at
  /\ ToggleStepS =>
       /\ SqliteGet(db', last'.id).val[1].status = Requested
       /\ SqliteGet(db', last'.id).val[1].updated_at = SqliteGet(db, last'.id).val[1].updated_at

LastOf(items, id) ==
  LET m == SelectSeq(items, LAMBDA i : i.id = id) IN m[Len(m)]

NonBlank(data) == SelectSeq(data, LAMBDA l : l # BlankLine)

C10_Upsert ==
  \A data \in {s \in AnyStreams : WellFormed(s)} :
    LET recs == Map(NonBlank(data), LAMBDA l : l.body) IN
    /\ \A res \in JsonlImport(file, data) :
         /\ res.count = Len(recs)
         /\ \A id \in Ids :
              IF id \in IdsOf(recs)
              THEN JsonlGet(res.file, id) = Some(LastOf(recs, id))
              ELSE JsonlGet(res.file, id) = JsonlGet(file, id)
    /\ LET res == SqliteImport(db, data) IN
         /\ res.ok /\ res.count = Len(recs)
         /\ \A id \in Ids :
              IF id \in IdsOf(recs)
              THEN SqliteGet(res.db, id) = Ok(Some(LastOf(recs, id)))
              ELSE SqliteGet(res.db, id) = SqliteGet(db, id)

\* C11 -- A malformed line in an import stream: the file backend skips it,
\* imports every well-formed line of the stream (get(id) is then the last
\* well-formed record with that id) and returns the number of well-formed
\* lines; the relational backend returns an error and its table is exactly
\* what it was before the call, the records that precede the malformed line
\* included.
\* the streams of one or two lines, one of them malformed
Malformed == {s \in SeqUpTo(StreamLines, 2) : ~WellFormed(s)}

GoodLines(data) == SelectSeq(data, LAMBDA l : l # BlankLine /\ l # BadLine)

C11_MalformedImport ==
  \A data \in Malformed :
    LET recs == Map(GoodLines(data), LAMBDA l : l.body) IN
    /\ \A res \in JsonlImport(file, data) :
         /\ res.count = Len(recs)
         /\ \A id \in IdsOf(recs) :
              JsonlGet(res.file, id) = Some(LastOf(recs, id))
    /\ ~SqliteImport(db, data).ok
    /\ SqliteImport(db, data).db = db

\* an import of a stream with a malformed line has run on stores that hold
\* records: the relational backend refused it, the file backend did not
C11_Witness ==
  /\ last.op = "import" /\ ~last.okS /\ last.okJ
  /\ db # {} /\ file # <<>>

\* C12 -- Last-writer-wins by updated_at: when import meets two records with
\* the same id (both in the stream, or one in the stream and one stored), the
\* record that remains in the store has the greatest updated_at of them.
StoredJ(f, id) == SelectSeq(read_all(f), LAMBDA i : i.id = id)
StoredS(d, id) == {r \in d : r.id = id}

MaxOf(S) == CHOOSE t \in S : \A u \in S : u <= t

\* the streams of one record, and of two records with the same id
RecordPairs ==
  {s \in SeqUpTo({to_string(i) : i \in Items \cup StreamItems}, 2) :
     Len(s) = 1 \/ (Len(s) = 2 /\ s[1].body.id = s[2].body.id)}

InsertAt(f, k, l) == SubSeq(f, 1, k) \o <<l>> \o SubSeq(f, k + 1, Len(f))

\* the file as it is, and with one blank or unparseable line anywhere in it
WithNoise(f) ==
  {f} \cup {InsertAt(f, k, l) : k \in 0..Len(f), l \in {BlankLine, BadLine}}

SumsUp(st) ==
  /\ st.active + st.archived = st.total
  /\ st.by_scope.global + st.by_scope.repo + st.by_scope.dir = st.total

C13_StatsConsistent ==
  /\ \A f \in WithNoise(file) :
       LET st == JsonlStats(f) IN
       /\ st = JsonlStats(file)
       /\ st.total = Len(JsonlList(f, None, None))
       /\ st.active = Len(JsonlList(f, None, Some("Active")))
       /\ st.archived = Len(JsonlList(f, None, Some("Archived")))
       /\ st.by_scope.global = Len(JsonlList(f, Some("Global"), None))
       /\ st.by_scope.repo = Len(JsonlList(f, Some("Repo"), None))
       /\ st.by_scope.dir = Len(JsonlList(f, Some("Dir"), None))
       /\ SumsUp(st)
  /\ LET st == SqliteStats(db)
         Count(sc, s, n) == \A l \in SqliteList(db, sc, s) : l.ok /\ Len(l.val) = n
     IN  /\ Count(None, None, st.total)
         /\ Count(None, Some("Active"), st.active)
         /\ Count(None, Some("Archived"), st.archived)
         /\ Count(Some("Global"), None, st.by_scope.global)
         /\ Count(Some("Repo"), None, st.by_scope.repo)
         /\ Count(Some("Dir"), None, st.by_scope.dir)
         /\ SumsUp(st)

\* both stores hold an active and an archived record, of different scopes
C13_Witness ==
  /\ JsonlStats(file).active >= 1 /\ JsonlStats(file).archived >= 1
  /\ SqliteStats(db).active >= 1 /\ SqliteStats(db).archived >= 1
  /\ JsonlStats(file).by_scope.global >= 1 /\ JsonlStats(file).by_scope.repo >= 1

\* ================================================================ recall
\* recall(store, prompt, ctx) of memory/src/recall.rs, run against both
\* stores.  A text is the sequence of its whitespace-separated words and a
\* word is the sequence of its maximal alphanumeric pieces: "Cargo-build" is
\* the one word <<"Cargo", "build">>.  A path is the sequence of its segments.
MaxStore == 3     \* lines the file may hold before add is no longer called

Words(ws) == [i \in 1..Len(ws) |-> <<ws[i]>>]

to_ascii_lowercase(w) ==
  CASE w = "Cargo" -> "cargo"
    [] w = "Rust" -> "rust"
    [] w = "Remember" -> "remember"
    [] w = "Use" -> "use"
    [] w = "Run" -> "run"
    [] w = "PR" -> "pr"
    [] OTHER -> w

\* tokenize: split at non-alphanumeric characters, drop empty pieces,
\* lower-case, collect in a set
tokenize(s) ==
  UNION {{to_ascii_lowercase(s[i][j]) : j \in 1..Len(s[i])} : i \in 1..Len(s)}

\* overlap_score is Overlap(a, b) / |a|; 0 when a or b is empty
Overlap(a, b) == IF a = {} \/ b = {} THEN 0 ELSE Cardinality(a \cap b)

\* f.ends_with(h) on paths
ends_with(f, h) ==
  Len(h) <= Len(f) /\ SubSeq(f, Len(f) - Len(h) + 1, Len(f)) = h

eq_ignore_ascii_case(a, b) == to_ascii_lowercase(a) = to_ascii_lowercase(b)

\* the four hint bonuses 0.4, 0.3, 0.2, 0.1, in tenths
Bonus(item, ctx) ==
    (IF ctx.current_file # None
        /\ \E h \in Range(item.relevance_hints.files) : ends_with(ctx.current_file[1], h)
     THEN 4 ELSE 0)
  + (IF ctx.crate_name # None
        /\ \E h \in Range(item.relevance_hints.crates) : h = ctx.crate_name[1]
     THEN 3 ELSE 0)
  + (IF ctx.language # None
        /\ \E h \in Range(item.relevance_hints.languages) :
             eq_ignore_ascii_case(h, ctx.language[1])
     THEN 2 ELSE 0)
  + (IF ctx.command # None
        /\ \E h \in Range(item.relevance_hints.commands) : h = ctx.command[1]
     THEN 1 ELSE 0)

\* 0.5^(age_days / 7) times 2, for the ages the timestamps below give
Decay2(age_days) ==
  CASE age_days = 0 -> 2
    [] age_days = 7 -> 1

\* The score of an item, exactly, in units of 1 / (200 * n) where n is the
\* number of tokens of the prompt (1 for a prompt without tokens):
\* (overlap + bonuses) * (1 + 0.1 * used_count) * decay.  The code computes
\* it in f32; on the items, prompts and contexts below two f32 scores
\* compare as the two exact scores do.
Score(item, tokens, ctx) ==
  LET n == IF tokens = {} THEN 1 ELSE Cardinality(tokens)
      base == 10 * Overlap(tokens, tokenize(item.content)) + n * Bonus(item, ctx)
      freq == 10 + item.counters.used_count
      decay == IF item.counters.last_used_at = None THEN 2
               ELSE Decay2(ctx.now - item.counters.last_used_at[1])
  IN  base * freq * decay

\* (score, token_len, item) of one listed item
Scored(item, tokens, ctx) ==
  [score |-> Score(item, tokens, ctx),
   tokens |-> Len(item.content),                 \* split_whitespace().count()
   item |-> item]

\* no sort: the items stay in the order list returned them in
SortDesc_Unsorted(sorted, rest) == sorted \o rest

\* sort_by(b.score cmp a.score): stable, descending
RECURSIVE SortDesc(_, _)
SortDesc(sorted, rest) ==
  IF rest = <<>> THEN sorted
  ELSE LET x == rest[1]
           k == Cardinality({i \in 1..Len(sorted) : sorted[i].score >= x.score})
       IN  SortDesc(SubSeq(sorted, 1, k) \o <<x>> \o SubSeq(sorted, k + 1, Len(sorted)),
                    Tail(rest))

\* the item as recall returns and stores it
Used(item, ctx) ==
  [item EXCEPT !.counters.used_count = @ + 1,
               !.counters.last_used_at = Some(ctx.now)]

\* (variant: the loop without the token test)
RECURSIVE Select_NoTokenTest(_, _, _, _)
Select_NoTokenTest(scored, out, used_tokens, ctx) ==
  IF scored = <<>> THEN out
  ELSE IF Len(out) >= ctx.item_cap THEN out
  ELSE Select_NoTokenTest(Tail(scored), Append(out, Used(scored[1].item, ctx)),
                          used_tokens + scored[1].tokens, ctx)

\* the selection loop: both tests end the loop
RECURSIVE Select(_, _, _, _)
Select(scored, out, used_tokens, ctx) ==
  IF scored = <<>> THEN out
  ELSE IF Len(out) >= ctx.item_cap THEN out
  ELSE IF used_tokens + scored[1].tokens > ctx.token_cap THEN out
  ELSE Select(Tail(scored), Append(out, Used(scored[1].item, ctx)),
              used_tokens + scored[1].tokens, ctx)

\* what recall returns for the listed active items
Selection(listed, prompt, ctx) ==
  Select(SortDesc(<<>>, Map(listed, LAMBDA i : Scored(i, tokenize(prompt), ctx))),
         <<>>, 0, ctx)

\* store.update(&item) for each selected item, in order
RECURSIVE UpdateAllJ(_, _)
UpdateAllJ(f, out) ==
  IF out = <<>> THEN f ELSE UpdateAllJ(JsonlUpdate(f, out[1]), Tail(out))

RECURSIVE UpdateAllS(_, _)
UpdateAllS(d, out) ==
  IF out = <<>> THEN [ok |-> TRUE, db |-> d]
  ELSE IF ~SqliteUpdate(d, out[1]).ok THEN [ok |-> FALSE, db |-> d]
  ELSE UpdateAllS(SqliteUpdate(d, out[1]).db, Tail(out))

\* recall on the file backend: [file, out]
JsonlRecall(f, prompt, ctx) ==
  LET out == Selection(JsonlList(f, None, Some("Active")), prompt, ctx)
  IN  [file |-> UpdateAllJ(f, out), out |-> out]

\* recall on the relational backend: the possible [ok, db, out], one for
\* each order list may return rows of equal updated_at in
SqliteRecall(d, prompt, ctx) ==
  {IF ~l.ok THEN [ok |-> FALSE, db |-> d, out |-> <<>>]
   ELSE LET out == Selection(l.val, prompt, ctx)
        IN  [ok |-> UpdateAllS(d, out).ok, db |-> UpdateAllS(d, out).db,
             out |-> IF UpdateAllS(d, out).ok THEN out ELSE <<>>] :
     l \in SqliteList(d, None, Some("Active"))}

\* ---- the stores recall is run on
RecallIds == {"a", "b", "c"}

Hints(files, crates, languages, commands) ==
  [files |-> files, crates |-> crates, languages |-> languages, commands |-> commands]

RecallItem(id, content, hints, used_count) ==
  [id |-> id, created_at |-> 1, updated_at |-> 1, schema_version |-> 1,
   source |-> "test", scope |-> "Global", status |-> "Active", kind |-> "Note",
   content |-> content, tags |-> <<>>, relevance_hints |-> hints,
   counters |-> [seen_count |-> 0, used_count |-> used_count, last_used_at |-> None],
   expiry |-> None]

\* The three items of tests/recall.rs in the order the test adds them, then
\* a second item with id "a", written by another store: its content is
\* empty, every hint of a full context matches it, and its used_count is 5.
RecallItems ==
  <<RecallItem("a", Words(<<"use", "cargo", "build", "for", "rust">>),
               Hints(<<>>, <<>>, <<"rust">>, <<>>), 0),
    RecallItem("b", Words(<<"cargo", "test", "runs", "tests">>),
               Hints(<<>>, <<>>, <<"rust">>, <<>>), 0),
    RecallItem("c", Words(<<"npm", "install", "packages">>),
               Hints(<<>>, <<>>, <<"javascript">>, <<>>), 0),
    RecallItem("a", <<>>, Hints(<<<<"main.rs">>>>, <<"core">>, <<"Rust">>, <<"build">>), 5)>>

\* the prompts "Cargo-build rust" and ""
Prompts == {<<<<"Cargo", "build">>, <<"rust">>>>, <<>>}

RecallNows == {1, 8}       \* ctx.now_rfc3339: two instants seven days apart

\* what the context says of the session: nothing, the language, everything
Sessions ==
  {[current_file |-> None, crate_name |-> None, language |-> None, command |-> None],
   [current_file |-> None, crate_name |-> None, language |-> Some("rust"),
    command |-> None],
   [current_file |-> Some(<<"src", "main.rs">>), crate_name |-> Some("core"),
    language |-> Some("rust"), command |-> Some("build")]}

ItemCaps == {0, 1, 2}
TokenCaps == {0, 4, 50}

RecallContext(s, now, item_cap, token_cap) ==
  [current_file |-> s.current_file, crate_name |-> s.crate_name,
   language |-> s.language, command |-> s.command,
   now |-> now, item_cap |-> item_cap, token_cap |-> token_cap]

Contexts ==
  {RecallContext(s, now, ic, tc) :
     s \in Sessions, now \in RecallNows, ic \in ItemCaps, tc \in TokenCaps}

\* the records a recall has used
Recalled(items) == SelectSeq(items, LAMBDA i : i.counters.last_used_at # None)

AddItem(item) ==
  /\ file' = JsonlAdd(file, item)
  /\ db' = SqliteAdd(db, item).db
  /\ last' = Call("add", "-", SqliteAdd(db, item).ok)

\* the items are added in the order of RecallItems, any of them left out
Same(x, y) == x.id = y.id /\ x.content = y.content

AddR(k) ==
  /\ Len(file) < MaxStore
  /\ \A i \in 1..Len(read_all(file)), j \in k..Len(RecallItems) :
       ~Same(read_all(file)[i], RecallItems[j])
  /\ AddItem(RecallItems[k])

ArchiveR(id, archived) ==
  /\ file' = JsonlArchive(file, id, archived)
  /\ db' = SqliteArchive(db, id, archived).db
  /\ last' = Call("archive", "-", SqliteArchive(db, id, archived).ok)

\* recall is called on stores no recall has written to; what a recall on
\* the stores it leaves does is examined as a function of those stores
Recall(prompt, ctx) ==
  /\ Recalled(read_all(file)) = <<>>
  /\ \A r \in db : json_value(r.counters_json).last_used_at = None
  /\ \E rs \in SqliteRecall(db, prompt, ctx) :
       /\ file' = JsonlRecall(file, prompt, ctx).file
       /\ db' = rs.db
       /\ last' = Call("recall", "-", rs.ok)

NextRecall ==
  \/ \E k \in 1..Len(RecallItems) : AddR(k)
  \/ \E id \in RecallIds, archived \in BOOLEAN : ArchiveR(id, archived)
  \/ \E prompt \in Prompts, ctx \in {c \in Contexts : c.now = 1} : Recall(prompt, ctx)

SpecRecall == Init /\ [][NextRecall]_vars

\* ------------------------------------------------- the claims on recall
\* A claim on recall is stated of the call as a function of the store it is
\* made on: for every reachable store, every prompt and every context.
CountersJ(f, id) == JsonlGet(f, id)[1].counters
CountersS(d, id) == SqliteGet(d, id).val[1].counters

\* C14 -- After a successful recall every returned item has, in the store,
\* used_count one above its used_count before the call and last_used_at =
\* ctx.now, and the returned item carries these counters; every item that
\* was not selected, archived ones included, has the counters it had.
C14_JsonlCounters ==
  \A prompt \in Prompts, ctx \in Contexts :
    LET r == JsonlRecall(file, prompt, ctx) IN
    /\ \A i \in 1..Len(r.out) :
         /\ CountersJ(r.file, r.out[i].id).used_count =
              CountersJ(file, r.out[i].id).used_count + 1
         /\ CountersJ(r.file, r.out[i].id).last_used_at = Some(ctx.now)
         /\ r.out[i].counters = CountersJ(r.file, r.out[i].id)
    /\ \A id \in IdsOf(read_all(file)) \ IdsOf(r.out) :
         CountersJ(r.file, id) = CountersJ(file, id)

C14_SqliteCounters ==
  \A prompt \in Prompts, ctx \in Contexts :
    \A r \in SqliteRecall(db, prompt, ctx) :
      /\ r.ok
      /\ \A i \in 1..Len(r.out) :
           /\ CountersS(r.db, r.out[i].id).used_count =
                CountersS(db, r.out[i].id).used_count + 1
           /\ CountersS(r.db, r.out[i].id).last_used_at = Some(ctx.now)
           /\ r.out[i].counters = CountersS(r.db, r.out[i].id)
      /\ \A id \in {q.id : q \in db} \ IdsOf(r.out) :
           CountersS(r.db, id) = CountersS(db, id)

C14_CountersUpdated == C14_JsonlCounters /\ C14_SqliteCounters

\* C15 -- The selection skips an item whose tokens exceed the remaining
\* budget and goes on with the next ranked item: an active item is left out
\* only when item_cap items are selected or when its tokens do not fit in
\* what the selected items leave of token_cap.
RECURSIVE SumTokens(_)
SumTokens(items) ==
  IF items = <<>> THEN 0 ELSE Len(items[1].content) + SumTokens(Tail(items))

FitsAreTaken(listed, out, ctx) ==
  \A i \in 1..Len(listed) :
    \/ Used(listed[i], ctx) \in Range(out)
    \/ Len(out) >= ctx.item_cap
    \/ SumTokens(out) + Len(listed[i].content) > ctx.token_cap

C15_SkipOverBudget ==
  \A prompt \in Prompts, ctx \in Contexts :
    /\ FitsAreTaken(JsonlList(file, None, Some("Active")),
                    JsonlRecall(file, prompt, ctx).out, ctx)
    /\ \A l \in SqliteList(db, None, Some("Active")) :
         l.ok /\ FitsAreTaken(l.val, Selection(l.val, prompt, ctx), ctx)

\* C16 -- With item_cap = 0 or token_cap = 0 recall returns the empty list
\* and leaves every stored record as it was, whatever the store holds
\* (active items whose content has no whitespace token included).
C16_ZeroBudget ==
  \A prompt \in Prompts, ctx \in {c \in Contexts : c.item_cap = 0 \/ c.token_cap = 0} :
    /\ JsonlRecall(file, prompt, ctx).out = <<>>
    /\ JsonlRecall(file, prompt, ctx).file = file
    /\ \A r \in SqliteRecall(db, prompt, ctx) : r.ok /\ r.out = <<>> /\ r.db = db

\* C17 -- Ranking.  For active items without last_used_at the score is
\* (|Q \cap C| / |Q| + 0.4 file + 0.3 crate + 0.2 language + 0.1 command)
\* * (1 + 0.1 * used_count), the first term 0 when Q or C is empty.  The
\* selection is in non-increasing score order, and when the token budget
\* does not bind it is the item_cap highest-scoring active items.  In the
\* store of tests/recall.rs (language rust, item_cap 2, token_cap 50) items
\* 1 and 2 are selected in that order and item 3 is not.
\* The score of the claim, times 100 * |Q| (times 100 when Q is empty).
ClaimScore(item, prompt, ctx) ==
  LET Q == tokenize(prompt)
      C == tokenize(item.content)
      n == IF Q = {} THEN 1 ELSE Cardinality(Q)
      h == item.relevance_hints
      byFile == ctx.current_file # None
                /\ \E i \in 1..Len(h.files) : ends_with(ctx.current_file[1], h.files[i])
      byCrate == ctx.crate_name # None
                 /\ \E i \in 1..Len(h.crates) : h.crates[i] = ctx.crate_name[1]
      byLanguage == ctx.language # None
                    /\ \E i \in 1..Len(h.languages) :
                         eq_ignore_ascii_case(h.languages[i], ctx.language[1])
      byCommand == ctx.command # None
                   /\ \E i \in 1..Len(h.commands) : h.commands[i] = ctx.command[1]
  IN  ( (IF Q = {} \/ C = {} THEN 0 ELSE 10 * Cardinality(Q \cap C))
        + n * ( (IF byFile THEN 4 ELSE 0) + (IF byCrate THEN 3 ELSE 0)
                + (IF byLanguage THEN 2 ELSE 0) + (IF byCommand THEN 1 ELSE 0) ) )
      * (10 + item.counters.used_count)

NeverUsed(listed) == \A i \in 1..Len(listed) : listed[i].counters.last_used_at = None

\* the item as it was listed, from the item as recall returns it
Listed(o) ==
  [o EXCEPT !.counters.used_count = @ - 1, !.counters.last_used_at = None]

Ranked(listed, out, prompt, ctx) ==
  /\ \A i, j \in 1..Len(out) :
       i < j => ClaimScore(Listed(out[i]), prompt, ctx) >= ClaimScore(Listed(out[j]), prompt, ctx)
  /\ SumTokens(listed) <= ctx.token_cap =>
       /\ Len(out) = IF Len(listed) < ctx.item_cap THEN Len(listed) ELSE ctx.item_cap
       /\ \A i \in 1..Len(listed) :
            \/ Used(listed[i], ctx) \in Range(out)
            \/ \A j \in 1..Len(out) :
                 ClaimScore(Listed(out[j]), prompt, ctx) >= ClaimScore(listed[i], prompt, ctx)

E1Context == RecallContext([current_file |-> None, crate_name |-> None,
                            language |-> Some("rust"), command |-> None], 8, 2, 50)

IsE1(listed) == Len(listed) = 3 /\ \A i \in 1..3 : listed[i] = RecallItems[i]

C17_Ranking ==
  /\ NeverUsed(JsonlList(file, None, Some("Active"))) =>
       \A prompt \in Prompts, ctx \in Contexts :
         Ranked(JsonlList(file, None, Some("Active")),
                JsonlRecall(file, prompt, ctx).out, prompt, ctx)
  /\ \A l \in SqliteList(db, None, Some("Active")) :
       l.ok /\ NeverUsed(l.val) =>
         \A prompt \in Prompts, ctx \in Contexts :
           Ranked(l.val, Selection(l.val, prompt, ctx), prompt, ctx)
  /\ IsE1(JsonlList(file, None, Some("Active"))) =>
       /\ Map(JsonlRecall(file, <<<<"Cargo", "build">>, <<"rust">>>>, E1Context).out,
              LAMBDA o : o.id) = <<"a", "b">>
       /\ \A r \in SqliteRecall(db, <<<<"Cargo", "build">>, <<"rust">>>>, E1Context) :
            Map(r.out, LAMBDA o : o.id) = <<"a", "b">>

\* recall has run on the store of tests/recall.rs: items 1 and 2 are used
\* once, item 3 is not, in both stores
C17_Witness ==
  /\ last.op = "recall"
  /\ \E ctx \in Contexts :
       /\ read_all(file) = <<Used(RecallItems[1], ctx), Used(RecallItems[2], ctx),
                             RecallItems[3]>>
       /\ db = {item_to_cols(Used(RecallItems[1], ctx)),
                item_to_cols(Used(RecallItems[2], ctx)), item_to_cols(RecallItems[3])}

\* C18 -- An archived item is never returned by recall and never changed by
\* it: while get(x) is archived (from archive(x, true) until archive(x,
\* false)), no recall returns an item with id x and get(x) is after the
\* recall what it was before.
C18_ArchivedExcluded ==
  \A prompt \in Prompts, ctx \in Contexts :
    /\ \A id \in RecallIds :
         (JsonlGet(file, id) # None /\ JsonlGet(file, id)[1].status = "Archived") =>
           /\ id \notin IdsOf(JsonlRecall(file, prompt, ctx).out)
           /\ JsonlGet(JsonlRecall(file, prompt, ctx).file, id) = JsonlGet(file, id)
    /\ \A r \in SqliteRecall(db, prompt, ctx) :
         \A id \in RecallIds :
           (SqliteGet(db, id) # Ok(None) /\ SqliteGet(db, id).val[1].status = "Archived") =>
             /\ id \notin IdsOf(r.out)
             /\ SqliteGet(r.db, id) = SqliteGet(db, id)

\* C19 -- Recall is a function of the store, the prompt and the context, and
\* a second recall on the store the first one leaves differs from the first
\* only through the counters the first one wrote: with used_count and
\* last_used_at put back to what they were, the second recall returns the
\* ids the first returned, in the same order, and leaves the store the first
\* left.
RestoreJ(post, pre) ==
  [i \in 1..Len(post) |->
     IF i <= Len(pre) /\ post[i].tag = "json" /\ pre[i].tag = "json"
     THEN to_string([post[i].body EXCEPT !.counters = pre[i].body.counters])
     ELSE post[i]]

RestoreS(post, pre) ==
  {IF \E q \in pre : q.id = r.id
   THEN [r EXCEPT !.counters_json = (CHOOSE q \in pre : q.id = r.id).counters_json]
   ELSE r : r \in post}

OutIds(out) == Map(out, LAMBDA o : o.id)

C19_Determinism ==
  \A prompt \in Prompts, ctx \in Contexts :
    /\ LET r1 == JsonlRecall(file, prompt, ctx)
           r2 == JsonlRecall(RestoreJ(r1.file, file), prompt, ctx)
       IN  OutIds(r2.out) = OutIds(r1.out) /\ r2.file = r1.file
    /\ \A r1 \in SqliteRecall(db, prompt, ctx) :
         \E r2 \in SqliteRecall(RestoreS(r1.db, db), prompt, ctx) :
           r2.ok = r1.ok /\ OutIds(r2.out) = OutIds(r1.out) /\ r2.db = r1.db

\* C20 -- Frame of recall: on every reachable store, recall adds no id,
\* removes no id, and changes no field of a stored record other than
\* counters and updated_at.
FrameOf(item) == [item EXCEPT !.counters = Counters0, !.updated_at = 0]

C20_RecallFrame ==
  \A prompt \in Prompts, ctx \in Contexts :
    /\ LET r == JsonlRecall(file, prompt, ctx) IN
       /\ IdsOf(read_all(r.file)) = IdsOf(read_all(file))
       /\ \A id \in IdsOf(read_all(file)) :
            FrameOf(JsonlGet(r.file, id)[1]) = FrameOf(JsonlGet(file, id)[1])
    /\ \A r \in SqliteRecall(db, prompt, ctx) :
         /\ {q.id : q \in r.db} = {q.id : q \in db}
         /\ \A id \in {q.id : q \in db} :
              FrameOf(SqliteGet(r.db, id).val[1]) = FrameOf(SqliteGet(db, id).val[1])

\* ------------------------------------------------------ recall that fails
\* ctx.now_rfc3339 is a timestamp (1, 8, ..) or a string that is none.
NotRfc3339 == 0

parse_from_rfc3339(s) == IF s >= 1 THEN Some(s) ELSE None

\* The store's update can return an error (an I/O error, a locked or changed
\* database).  fault = k > 0: the k-th update call of the recall returns an
\* error; fault = 0: every update call does what the store does.
RECURSIVE UpdateUntilJ(_, _, _)
UpdateUntilJ(f, out, fault) ==
  IF out = <<>> THEN [ok |-> TRUE, file |-> f]
  ELSE IF fault = 1 THEN [ok |-> FALSE, file |-> f]
  ELSE UpdateUntilJ(JsonlUpdate(f, out[1]), Tail(out),
                    IF fault = 0 THEN 0 ELSE fault - 1)

RECURSIVE UpdateUntilS(_, _, _)
UpdateUntilS(d, out, fault) ==
  IF out = <<>> THEN [ok |-> TRUE, db |-> d]
  ELSE IF fault = 1 \/ ~SqliteUpdate(d, out[1]).ok THEN [ok |-> FALSE, db |-> d]
  ELSE UpdateUntilS(SqliteUpdate(d, out[1]).db, Tail(out),
                    IF fault = 0 THEN 0 ELSE fault - 1)

\* recall with its errors, on the file backend: [ok, file, out]
JsonlTryRecall(f, prompt, ctx, fault) ==
  IF parse_from_rfc3339(ctx.now) = None
  THEN [ok |-> FALSE, file |-> f, out |-> <<>>]
  ELSE LET out == Selection(JsonlList(f, None, Some("Active")), prompt, ctx)
           u == UpdateUntilJ(f, out, fault)
       IN  [ok |-> u.ok, file |-> u.file, out |-> IF u.ok THEN out ELSE <<>>]

\* recall with its errors, on the relational backend: the possible [ok, db, out]
SqliteTryRecall(d, prompt, ctx, fault) ==
  IF parse_from_rfc3339(ctx.now) = None
  THEN {[ok |-> FALSE, db |-> d, out |-> <<>>]}
  ELSE {IF ~l.ok THEN [ok |-> FALSE, db |-> d, out |-> <<>>]
        ELSE LET out == Selection(l.val, prompt, ctx)
                 u == UpdateUntilS(d, out, fault)
             IN  [ok |-> u.ok, db |-> u.db, out |-> IF u.ok THEN out ELSE <<>>] :
          l \in SqliteList(d, None, Some("Active"))}

Faults == {1, 2}

\* the contexts of the recall calls that are made: now is 1 or no timestamp
CallContexts ==
  {c \in Contexts : c.now = 1}
    \cup {RecallContext(s, NotRfc3339, ic, tc) :
            s \in Sessions, ic \in ItemCaps, tc \in TokenCaps}

RecallFault(prompt, ctx, fault) ==
  /\ Recalled(read_all(file)) = <<>>
  /\ \A r \in db : json_value(r.counters_json).last_used_at = None
  /\ \E rs \in SqliteTryRecall(db, prompt, ctx, fault) :
       /\ file' = JsonlTryRecall(file, prompt, ctx, fault).file
       /\ db' = rs.db
       /\ last' = [op |-> "recall", id |-> "-",
                   okJ |-> JsonlTryRecall(file, prompt, ctx, fault).ok, okS |-> rs.ok]

NextRecallFault ==
  \/ \E k \in 1..Len(RecallItems) : AddR(k)
  \/ \E id \in RecallIds, archived \in BOOLEAN : ArchiveR(id, archived)
  \/ \E prompt \in Prompts, ctx \in {c \in Contexts : c.now = 1} : Recall(prompt, ctx)
  \/ \E prompt \in Prompts, ctx \in CallContexts, fault \in Faults :
       RecallFault(prompt, ctx, fault)

SpecRecallFault == Init /\ [][NextRecallFault]_vars

\* C21 -- Failure of recall.  When update fails for the k-th accepted item,
\* recall returns the error, the k-1 items accepted before it have their
\* incremented counters in the store, and the k-th item and every item
\* ranked after it are as they were.  When ctx.now is no timestamp, recall
\* fails and the store is as it was.
C21_JsonlFailure ==
  \A prompt \in Prompts, ctx \in Contexts, k \in Faults :
    LET full == JsonlRecall(file, prompt, ctx).out
        r == JsonlTryRecall(file, prompt, ctx, k)
    IN  Len(full) >= k =>
          /\ ~r.ok
          /\ \A i \in 1..(k - 1) :
               CountersJ(r.file, full[i].id) = full[i].counters
          /\ \A i \in k..Len(full) :
               JsonlGet(r.file, full[i].id) = JsonlGet(file, full[i].id)
          /\ \A id \in IdsOf(read_all(file)) \ IdsOf(full) :
               JsonlGet(r.file, id) = JsonlGet(file, id)

C21_SqliteFailure ==
  \A prompt \in Prompts, ctx \in Contexts, k \in Faults :
    \A l \in SqliteList(db, None, Some("Active")) :
      LET full == Selection(l.val, prompt, ctx)
          u == UpdateUntilS(db, full, k)
      IN  Len(full) >= k =>
            /\ ~u.ok
            /\ \A i \in 1..(k - 1) :
                 CountersS(u.db, full[i].id) = full[i].counters
            /\ \A i \in k..Len(full) :
                 SqliteGet(u.db, full[i].id) = SqliteGet(db, full[i].id)
            /\ \A id \in {q.id : q \in db} \ IdsOf(full) :
                 SqliteGet(u.db, id) = SqliteGet(db, id)

C21_BadNow ==
  \A prompt \in Prompts, ctx \in CallContexts, k \in {0} \cup Faults :
    parse_from_rfc3339(ctx.now) = None =>
      /\ ~JsonlTryRecall(file, prompt, ctx, k).ok
      /\ JsonlTryRecall(file, prompt, ctx, k).file = file
      /\ \A r \in SqliteTryRecall(db, prompt, ctx, k) : ~r.ok /\ r.db = db

C21_RecallFailure == C21_JsonlFailure /\ C21_SqliteFailure /\ C21_BadNow

\* ================================================================ redaction
\* A string is the sequence of its characters; a span (a, b) holds the
\* characters a+1 .. b (byte offsets a .. b of the source, end exclusive).
Upper == {"A", "B", "C", "D", "E", "F", "G", "H", "I", "J", "K", "L", "M", "N", "O", "P", "Q", "R", "S", "T", "U", "V", "W", "X", "Y", "Z"}
Lower == {"a", "b", "c", "d", "e", "f", "g", "h", "i", "j", "k", "l", "m", "n", "o", "p", "q", "r", "s", "t", "u", "v", "w", "x", "y", "z"}
Digit == {"0", "1", "2", "3", "4", "5", "6", "7", "8", "9"}
UpperSeq == <<"A", "B", "C", "D", "E", "F", "G", "H", "I", "J", "K", "L", "M", "N", "O", "P", "Q", "R", "S", "T", "U", "V", "W", "X", "Y", "Z">>
LowerSeq == <<"a", "b", "c", "d", "e", "f", "g", "h", "i", "j", "k", "l", "m", "n", "o", "p", "q", "r", "s", "t", "u", "v", "w", "x", "y", "z">>

ValueClass == Upper \cup Lower \cup Digit \cup {"_", "-"}
Base64Class == Upper \cup Lower \cup Digit \cup {"+", "/", "="}
EntClass == Upper \cup Lower \cup Digit \cup {"+", "/", "=", "_", "-"}
SpaceClass == {" ", "\n", "\t"}
SepClass == SpaceClass \cup {":", "="}
UpperSpaceClass == Upper \cup {" "}

Redaction(masked, issues) ==
  [masked |-> masked, issues |-> issues, blocked |-> issues # <<>>]

\* the end of the longest run of characters of class that starts at offset i
RECURSIVE RunEnd(_, _, _)
RunEnd(s, i, class) ==
  IF i < Len(s) /\ s[i + 1] \in class THEN RunEnd(s, i + 1, class) ELSE i

fold(c) == IF c \in Upper THEN LowerSeq[CHOOSE k \in 1..26 : UpperSeq[k] = c] ELSE c

lit_at(s, i, l) == i + Len(l) <= Len(s) /\ \A k \in 1..Len(l) : s[i + k] = l[k]
lit_at_i(s, i, l) == i + Len(l) <= Len(s) /\ \A k \in 1..Len(l) : fold(s[i + k]) = l[k]

\* (?i)(api[_-]?key|token|secret|password): the end of the name at offset i, or -1
name_end(s, i) ==
  IF lit_at_i(s, i, <<"a", "p", "i">>)
  THEN IF i + 3 < Len(s) /\ s[i + 4] \in {"_", "-"} /\ lit_at_i(s, i + 4, <<"k", "e", "y">>) THEN i + 7
       ELSE IF lit_at_i(s, i + 3, <<"k", "e", "y">>) THEN i + 6 ELSE 0 - 1
  ELSE IF lit_at_i(s, i, <<"t", "o", "k", "e", "n">>) THEN i + 5
  ELSE IF lit_at_i(s, i, <<"s", "e", "c", "r", "e", "t">>) THEN i + 6
  ELSE IF lit_at_i(s, i, <<"p", "a", "s", "s", "w", "o", "r", "d">>) THEN i + 8
  ELSE 0 - 1

MinValue == 16
MinRun == 20

\* api_re at offset i: the span of group 2, or <<>>
api_at(s, i) ==
  LET ne == name_end(s, i) IN
  IF ne < 0 THEN <<>>
  ELSE LET se == RunEnd(s, ne, SepClass)
           ve == RunEnd(s, se, ValueClass)
       IN  IF se > ne /\ ve - se >= MinValue THEN <<se, ve>> ELSE <<>>

\* captures_iter: the matches from the left, none overlapping another
RECURSIVE api_re(_, _)
api_re(s, i) ==
  IF i >= Len(s) THEN <<>>
  ELSE IF api_at(s, i) # <<>> THEN <<api_at(s, i)>> \o api_re(s, api_at(s, i)[2])
  ELSE api_re(s, i + 1)

\* ssh_re at offset i: the span of the match, or <<>>
ssh_at(s, i) ==
  LET b == IF lit_at(s, i, <<"s", "s", "h", "-", "r", "s", "a", " ">>) THEN i + 8
           ELSE IF lit_at(s, i, <<"s", "s", "h", "-", "e", "d", "2", "5", "5", "1", "9", " ">>) THEN i + 12 ELSE 0 - 1
  IN  IF b < 0 THEN <<>>
      ELSE IF RunEnd(s, b, Base64Class) - b >= MinRun
           THEN <<i, RunEnd(s, b, Base64Class)>> ELSE <<>>

RECURSIVE ssh_re(_, _)
ssh_re(s, i) ==
  IF i >= Len(s) THEN <<>>
  ELSE IF ssh_at(s, i) # <<>> THEN <<ssh_at(s, i)>> \o ssh_re(s, ssh_at(s, i)[2])
  ELSE ssh_re(s, i + 1)

\* the ends of "[A-Z ]*PRIVATE KEY-----" read from offset h
key_ends(s, h) ==
  {j + 16 : j \in {j \in h..RunEnd(s, h, UpperSpaceClass) : lit_at(s, j, <<"P", "R", "I", "V", "A", "T", "E", " ", "K", "E", "Y", "-", "-", "-", "-", "-">>)}}

\* the ends of "[\s\S]+?-----END [A-Z ]*PRIVATE KEY-----" read from offset b:
\* the first END line that has a match, then its longest run of [A-Z ]
MinOf(S) == CHOOSE x \in S : \A y \in S : x <= y

body_end(s, b) ==
  LET es == {e \in (b + 1)..Len(s) : lit_at(s, e, <<"-", "-", "-", "-", "-", "E", "N", "D", " ">>) /\ key_ends(s, e + 9) # {}}
  IN  IF es = {} THEN 0 - 1 ELSE MaxOf(key_ends(s, MinOf(es) + 9))

\* pem_re at offset i: the span of the match, or <<>>
pem_at(s, i) ==
  IF ~lit_at(s, i, <<"-", "-", "-", "-", "-", "B", "E", "G", "I", "N", " ">>) THEN <<>>
  ELSE LET hs == {h \in key_ends(s, i + 11) : body_end(s, h) >= 0}
       IN  IF hs = {} THEN <<>> ELSE <<i, body_end(s, MaxOf(hs))>>

RECURSIVE pem_re(_, _)
pem_re(s, i) ==
  IF i >= Len(s) THEN <<>>
  ELSE IF pem_at(s, i) # <<>> THEN <<pem_at(s, i)>> \o pem_re(s, pem_at(s, i)[2])
  ELSE pem_re(s, i + 1)

\* ent_re: the runs of at least MinRun characters of EntClass
RECURSIVE ent_re(_, _)
ent_re(s, i) ==
  IF i >= Len(s) THEN <<>>
  ELSE LET e == RunEnd(s, i, EntClass)
       IN  IF e - i >= MinRun THEN <<<<i, e>>>> \o ent_re(s, e)
           ELSE IF e > i THEN ent_re(s, e) ELSE ent_re(s, i + 1)

\* c * log2(c), in thousandths of a bit, for c = 1 .. 128
CLog2C == <<0, 2000, 4755, 8000, 11610, 15510, 19651, 24000,
           28529, 33219, 38054, 43020, 48106, 53303, 58603, 64000,
           69487, 75059, 80711, 86439, 92239, 98107, 104042, 110039,
           116096, 122211, 128382, 134606, 140881, 147207, 153580, 160000,
           166465, 172974, 179525, 186117, 192750, 199421, 206131, 212877,
           219660, 226477, 233329, 240215, 247133, 254084, 261066, 268078,
           275121, 282193, 289294, 296423, 303580, 310764, 317975, 325212,
           332475, 339763, 347076, 354413, 361775, 369160, 376569, 384000,
           391454, 398930, 406428, 413947, 421488, 429050, 436632, 444235,
           451857, 459500, 467161, 474842, 482543, 490261, 497999, 505754,
           513528, 521319, 529128, 536955, 544798, 552659, 560536, 568430,
           576340, 584267, 592209, 600168, 608142, 616131, 624136, 632156,
           640192, 648242, 656306, 664386, 672479, 680587, 688710, 696846,
           704996, 713160, 721337, 729528, 737732, 745950, 754180, 762424,
           770680, 778949, 787231, 795526, 803833, 812152, 820483, 828827,
           837182, 845550, 853929, 862320, 870723, 879137, 887563, 896000>>

\* Len(s) times the entropy of s, in thousandths of a bit
RECURSIVE SumCLog2C(_, _)
SumCLog2C(s, chars) ==
  IF chars = {} THEN 0
  ELSE LET c == CHOOSE c \in chars : TRUE
       IN  CLog2C[Cardinality({k \in 1..Len(s) : s[k] = c})] + SumCLog2C(s, chars \ {c})

shannon_entropy(s) == CLog2C[Len(s)] - SumCLog2C(s, Range(s))

MinEntropy == 4500

\* the state of the scan: the spans and the issues recorded so far
push_span(st, range, issue) ==
  IF \E k \in 1..Len(st.spans) :
       range[1] >= st.spans[k][1] /\ range[2] <= st.spans[k][2]
  THEN st
  ELSE [spans |-> Append(st.spans, range), issues |-> Append(st.issues, issue)]

RECURSIVE push_all(_, _, _)
push_all(st, ms, issue) ==
  IF ms = <<>> THEN st
  ELSE push_all(push_span(st, ms[1], issue), Tail(ms), issue)

RECURSIVE ent_pass(_, _, _)
ent_pass(s, st, ms) ==
  IF ms = <<>> THEN st
  ELSE IF \E k \in 1..Len(st.spans) :
            ms[1][1] < st.spans[k][2] /\ ms[1][2] > st.spans[k][1]
       THEN ent_pass(s, st, Tail(ms))
  ELSE IF shannon_entropy(SubSeq(s, ms[1][1] + 1, ms[1][2])) >= MinEntropy * (ms[1][2] - ms[1][1])
       THEN ent_pass(s, push_span(st, ms[1], "high-entropy string"), Tail(ms))
       ELSE ent_pass(s, st, Tail(ms))

\* spans.sort_by_key(|r| r.0): a stable sort by start
RECURSIVE sort_by_start(_, _)
sort_by_start(sorted, rest) ==
  IF rest = <<>> THEN sorted
  ELSE LET x == rest[1]
           n == Cardinality({k \in 1..Len(sorted) : sorted[k][1] <= x[1]})
       IN  sort_by_start(SubSeq(sorted, 1, n) \o <<x>> \o SubSeq(sorted, n + 1, Len(sorted)),
                         Tail(rest))

\* (variant: a span that starts where the last one ends is not merged)
RECURSIVE merge_Strict(_, _)
merge_Strict(merged, spans) ==
  IF spans = <<>> THEN merged
  ELSE IF merged # <<>> /\ spans[1][1] < merged[Len(merged)][2]
       THEN merge_Strict([merged EXCEPT ![Len(merged)][2] =
                            IF @ >= spans[1][2] THEN @ ELSE spans[1][2]], Tail(spans))
       ELSE merge_Strict(Append(merged, spans[1]), Tail(spans))

RECURSIVE merge(_, _)
merge(merged, spans) ==
  IF spans = <<>> THEN merged
  ELSE IF merged # <<>> /\ spans[1][1] <= merged[Len(merged)][2]
       THEN merge([merged EXCEPT ![Len(merged)][2] =
                     IF @ >= spans[1][2] THEN @ ELSE spans[1][2]], Tail(spans))
       ELSE merge(Append(merged, spans[1]), Tail(spans))

SENTINEL == <<"[", "R", "E", "D", "A", "C", "T", "E", "D", "]">>

\* (variant: the spans are cut out and nothing is put in their place)
mask_Cut(s, merged, lastEnd) ==
  IF merged = <<>> THEN s
  ELSE SubSeq(s, 1, merged[1][1]) \o SubSeq(s, merged[Len(merged)][2] + 1, Len(s))

RECURSIVE mask(_, _, _)
mask(s, merged, lastEnd) ==
  IF merged = <<>> THEN SubSeq(s, lastEnd + 1, Len(s))
  ELSE SubSeq(s, lastEnd + 1, merged[1][1]) \o SENTINEL
         \o mask(s, Tail(merged), merged[1][2])

\* the spans and issues of the three pattern passes
patterns(s) ==
  LET st0 == [spans |-> <<>>, issues |-> <<>>]
      st1 == push_all(st0, api_re(s, 0), "possible API key")
      st2 == push_all(st1, ssh_re(s, 0), "possible SSH key")
  IN  push_all(st2, pem_re(s, 0), "possible private key")

\* and of the high-entropy pass after them
scan(s) == ent_pass(s, patterns(s), ent_re(s, 0))

redact_candidate(s) ==
  Redaction(mask(s, merge(<<>>, sort_by_start(<<>>, scan(s).spans)), 0), scan(s).issues)

\* ------------------------------------------------- candidates and the scan
\* the pieces candidates are made of
KV == <<"p", "a", "s", "s", "w", "o", "r", "d", "=">>
V16 == <<"a", "b", "c", "d", "e", "f", "g", "h", "1", "2", "3", "4", "5", "6", "7", "8">>
HE24 == <<"+", "/", "A", "B", "C", "D", "E", "F", "G", "H", "I", "J", "K", "L", "M", "N", "O", "P", "Q", "R", "S", "T", "U", "V">>
SP == <<" ">>
SSH == <<"s", "s", "h", "-", "r", "s", "a", " ">>
BEGIN == <<"-", "-", "-", "-", "-", "B", "E", "G", "I", "N", " ", "P", "R", "I", "V", "A", "T", "E", " ", "K", "E", "Y", "-", "-", "-", "-", "-">>
END == <<"-", "-", "-", "-", "-", "E", "N", "D", " ", "P", "R", "I", "V", "A", "T", "E", " ", "K", "E", "Y", "-", "-", "-", "-", "-">>
Pieces == {KV, V16, HE24, SP, SSH, BEGIN, END}

\* the inputs of tests/redact.rs
ApiKeyInput == <<"H", "e", "r", "e", " ", "i", "s", " ", "A", "P", "I", "_", "K", "E", "Y", "=", "A", "B", "C", "D", "1", "2", "3", "4", "E", "F", "G", "H", "5", "6", "7", "8", "I", "J", "K", "L", "9", "0", "1", "2">>
SshKeyInput == <<"s", "s", "h", "-", "e", "d", "2", "5", "5", "1", "9", " ", "A", "A", "A", "A", "C", "3", "N", "z", "a", "C", "1", "l", "Z", "D", "I", "1", "N", "T", "E", "5", "A", "A", "A", "A", "I", "B", "S", "8", "u", "p", "3", "2", "j", "h", "R", "z", "2", "5", "k", "4", "b", "1", "q", "m", "0", "N", "n", "1", "t", "a", "1", "V", "x">>
HighEntropyInput == <<"t", "o", "k", "e", "n", ":", " ", "X", "y", "Z", "0", "1", "2", "3", "4", "5", "6", "7", "8", "9", "+", "/", "A", "B", "C", "d", "e", "f", "g", "h", "I", "J", "K", "L", "m", "n", "o", "P", "Q", "R", "s", "t", "u", "V", "W", "x", "y", "z", "0", "1", "2", "3">>
NoDetectionInput == <<"o", "r", "d", "i", "n", "a", "r", "y", " ", "t", "e", "x", "t">>
TestInputs == {ApiKeyInput, SshKeyInput, HighEntropyInput, NoDetectionInput}

MaxPieces == 3

RECURSIVE Concat(_)
Concat(ps) == IF ps = <<>> THEN <<>> ELSE ps[1] \o Concat(Tail(ps))

Candidates == {Concat(ps) : ps \in SeqUpTo(Pieces, MaxPieces)} \cup TestInputs

InitRedact ==
  /\ file = <<>>
  /\ db = {}
  /\ last \in {[op |-> "candidate", s |-> x] : x \in Candidates}

\* a candidate is scanned before it is stored
Redact ==
  /\ last.op = "candidate"
  /\ last' = [op |-> "redact", s |-> last.s, r |-> redact_candidate(last.s)]
  /\ UNCHANGED <<file, db>>

\* the masked text of a blocked candidate is offered again
Resubmit ==
  /\ last.op = "redact"
  /\ last.r.blocked
  /\ last' = [op |-> "candidate", s |-> last.r.masked]
  /\ UNCHANGED <<file, db>>

NextRedact == Redact \/ Resubmit

SpecRedact == InitRedact /\ [][NextRedact]_vars

\* C22 -- Redaction is idempotent: for every input x, redacting the masked
\* text of redact(x) gives that masked text again, and is not blocked.
C22_Idempotent ==
  last.op = "redact" =>
    /\ redact_candidate(last.r.masked).masked = last.r.masked
    /\ ~redact_candidate(last.r.masked).blocked

\* C23 -- Every run of at least 20 characters of [A-Za-z0-9+/=_-] with an
\* entropy of at least 4.5 bits per symbol is recorded and masked in full,
\* unless it lies entirely inside a span recorded before it; a run that
\* only partly overlaps such a span is not skipped, so none of its
\* characters are in the masked text.
Qualifying(s) ==
  {m \in Range(ent_re(s, 0)) :
     shannon_entropy(SubSeq(s, m[1] + 1, m[2])) >= MinEntropy * (m[2] - m[1])}

Inside(m, spans) ==
  \E k \in 1..Len(spans) : m[1] >= spans[k][1] /\ m[2] <= spans[k][2]

C23_HighEntropyMasked ==
  last.op = "redact" =>
    \A m \in Qualifying(last.s) :
      \/ Inside(m, patterns(last.s).spans)
      \/ /\ m \in Range(scan(last.s).spans)
         /\ Inside(m, merge(<<>>, sort_by_start(<<>>, scan(last.s).spans)))

\* C24 -- blocked is true exactly when issues is not empty; when no pass
\* detects anything, issues is empty, blocked is false and masked is the
\* input; when blocked is true, masked holds [REDACTED] at least once.
Contains(s, l) == \E i \in 0..(Len(s) - Len(l)) : lit_at(s, i, l)

NoDetection(s) ==
  /\ api_re(s, 0) = <<>>
  /\ ssh_re(s, 0) = <<>>
  /\ pem_re(s, 0) = <<>>
  /\ Qualifying(s) = {}

pad(line) == [tag |-> line.tag, body |-> line.body, pad |-> TRUE]

\* line.trim()
trim(line) ==
  IF "pad" \in DOMAIN line THEN [tag |-> line.tag, body |-> line.body] ELSE line

\* (variant: every parsed line is written, seen or not)
CompactLoop_NoSeen(lines, seen, out, read, written) ==
  LET good == SelectSeq(lines, LAMBDA l : ~is_blank(l) /\ from_str(trim(l)) # None)
  IN  [read |-> Len(SelectSeq(lines, LAMBDA l : ~is_blank(l))),
       written |-> Len(good), out |-> Map(good, trim)]

\* the loop of compact_jsonl over the lines of the input
RECURSIVE CompactLoop(_, _, _, _, _)
CompactLoop(lines, seen, out, read, written) ==
  IF lines = <<>> THEN [read |-> read, written |-> written, out |-> out]
  ELSE LET trimmed == trim(lines[1]) IN
       IF is_blank(trimmed) THEN CompactLoop(Tail(lines), seen, out, read, written)
       ELSE IF from_str(trimmed) # None /\ from_str(trimmed)[1].id \notin seen
            THEN CompactLoop(Tail(lines), seen \cup {from_str(trimmed)[1].id},
                             Append(out, trimmed), read + 1, written + 1)
            ELSE CompactLoop(Tail(lines), seen, out, read + 1, written)

\* compact_jsonl(input, output): [read, written, out], out the output file
compact_jsonl(input) == CompactLoop(input, {}, <<>>, 0, 0)

\* migrate_jsonl_to_sqlite: the source file is the stream of import
migrate_jsonl_to_sqlite(f, d) == SqliteImport(d, f)

MaxLines == 3

FileLines ==
  {to_string(i) : i \in Items} \cup {pad(to_string(i)) : i \in {j \in Items : j.updated_at = 1}}
    \cup {BlankLine, BadLine}

\* some writer appends a line to the file
AppendLine(l) ==
  /\ Len(file) < MaxLines
  /\ db = {}
  /\ file' = Append(file, l)
  /\ last' = Call("append", "-", TRUE)
  /\ UNCHANGED db

\* memory compact --input P --output P
Compact ==
  /\ file' = compact_jsonl(file).out
  /\ last' = Call("compact", "-", TRUE)
  /\ UNCHANGED db

\* memory migrate --jsonl P --sqlite Q
Migrate ==
  /\ db' = migrate_jsonl_to_sqlite(file, db).db
  /\ last' = Call("migrate", "-", migrate_jsonl_to_sqlite(file, db).ok)
  /\ UNCHANGED file

NextMigrate ==
  \/ \E l \in FileLines : AppendLine(l)
  \/ Compact
  \/ Migrate

SpecMigrate == Init /\ [][NextMigrate]_vars

\* C25 -- compact_jsonl returns (read, written): read is the number of
\* non-blank input lines, written the number of distinct ids among the
\* lines that parse, written <= read; the output holds exactly one line
\* per distinct id of the input, the original line of the first occurrence
\* of the id, in input order, and no blank or unparseable line.
FirstOf(f, id) ==
  MinOf({i \in 1..Len(f) : from_str(f[i]) # None /\ from_str(f[i])[1].id = id})

\* the first occurrences of the ids of f, in the order of f
Firsts(f) ==
  {i \in 1..Len(f) : from_str(f[i]) # None /\ FirstOf(f, from_str(f[i])[1].id) = i}

Counted(r, f) ==
  /\ r.read = Len(NonBlank(f))
  /\ r.written = Cardinality(IdsOf(read_all(f)))
  /\ r.written <= r.read
  /\ Len(r.out) = r.written
  /\ \A i \in 1..Len(r.out) : ~is_blank(r.out[i]) /\ from_str(r.out[i]) # None
  /\ \A id \in IdsOf(read_all(f)) :
       Cardinality({i \in 1..Len(r.out) : from_str(r.out[i])[1].id = id}) = 1

C25_OriginalLines ==
  LET r == compact_jsonl(file)
  IN  /\ Counted(r, file)
      /\ \E idx \in [1..Len(r.out) -> Firsts(file)] :
           /\ \A i, j \in 1..Len(r.out) : i < j => idx[i] < idx[j]
           /\ \A i \in 1..Len(r.out) : r.out[i] = file[idx[i]]

\* C25 (amended) -- as above, the output line being the line of the first
\* occurrence without the blanks around it.
C25_TrimmedLines ==
  LET r == compact_jsonl(file)
  IN  /\ Counted(r, file)
      /\ \E idx \in [1..Len(r.out) -> Firsts(file)] :
           /\ \A i, j \in 1..Len(r.out) : i < j => idx[i] < idx[j]
           /\ \A i \in 1..Len(r.out) : r.out[i] = trim(file[idx[i]])

\* the file of scenario E2 (ids 1, 2, 1), compacted in place
C25_Witness ==
  /\ last.op = "compact"
  /\ Len(file) = 2
  /\ from_str(file[1])[1].id = "a"
  /\ from_str(file[2])[1].id = "b"
  /\ file = compact_jsonl(<<file[1], file[2], to_string(MemoryItem("a", 2, 2, "Global", "Archived"))>>).out

\* C26 -- After a successful migrate of a file of well-formed records the
\* returned count is the number of non-blank source lines, and for every
\* id of the source file get(id) of the relational store returns the
\* record get(id) of the file backend returns on the source file.
C26_Migrated ==
  LET r == migrate_jsonl_to_sqlite(file, db)
  IN  WellFormed(file) /\ r.ok =>
        /\ r.count = Len(NonBlank(file))
        /\ \A id \in IdsOf(read_all(file)) :
             /\ SqliteGet(r.db, id).ok
             /\ SqliteGet(r.db, id).val = JsonlGet(file, id)

\* ================================================ the memory subcommands
\* One writer issues the subcommands of `codex memory` on a repository
\* store; Utc::now() of a later call is never below that of an earlier one.
\* last = [now, saved]: the clock the last call read and the output the
\* writer kept of an `export`.
CliNows == {1, 8}
CliIds == {"a"}

CliItem(id, now, content) ==
  [id |-> id, created_at |-> now, updated_at |-> now, schema_version |-> 1,
   source |-> "codex-cli", scope |-> "Repo", status |-> "Active", kind |-> "Note",
   content |-> content, tags |-> <<>>, relevance_hints |-> RelevanceHints0,
   counters |-> Counters0, expiry |-> None]

CliContext(now) ==
  [current_file |-> None, crate_name |-> None, language |-> None, command |-> None,
   now |-> now, item_cap |-> 8, token_cap |-> 300]

InitCli ==
  /\ file = <<>>
  /\ db = {}
  /\ last = [now |-> 1, saved |-> <<>>]

Later == {t \in CliNows : t >= last.now}

\* memory add <content>: the id is a new UUID
CliAdd(id, t) ==
  /\ JsonlGet(file, id) = None
  /\ SqliteGet(db, id) = Ok(None)
  /\ file' = JsonlAdd(file, CliItem(id, t, Words(<<"x">>)))
  /\ db' = SqliteAdd(db, CliItem(id, t, Words(<<"x">>))).db
  /\ last' = [last EXCEPT !.now = t]

Edited(item, t) == [item EXCEPT !.content = Words(<<"y">>), !.updated_at = t]

\* memory edit <id> <content>: get, then update; "not found" otherwise
CliEdit(id, t) ==
  /\ file' = IF JsonlGet(file, id) = None THEN file
             ELSE JsonlUpdate(file, Edited(JsonlGet(file, id)[1], t))
  /\ db' = IF ~SqliteGet(db, id).ok \/ SqliteGet(db, id).val = None THEN db
           ELSE SqliteUpdate(db, Edited(SqliteGet(db, id).val[1], t)).db
  /\ last' = [last EXCEPT !.now = t]

CliRm(id, t) ==
  /\ file' = JsonlDelete(file, id)
  /\ db' = SqliteDelete(db, id).db
  /\ last' = [last EXCEPT !.now = t]

\* memory archive <id>, memory unarchive <id>
CliArchive(id, archived, t) ==
  /\ file' = JsonlArchive(file, id, archived)
  /\ db' = SqliteArchive(db, id, archived).db
  /\ last' = [last EXCEPT !.now = t]

\* memory export > saved
CliExport(t) ==
  /\ last.saved = <<>>
  /\ last' = [now |-> t, saved |-> JsonlExport(file)]
  /\ UNCHANGED <<file, db>>

\* memory import < saved
CliImport(t) ==
  /\ \E res \in JsonlImport(file, last.saved) : file' = res.file
  /\ db' = SqliteImport(db, last.saved).db
  /\ last' = [last EXCEPT !.now = t]

\* memory recall --for <query>, on a store no recall has written to
CliRecall(t) ==
  /\ Recalled(read_all(file)) = <<>>
  /\ \A r \in db : json_value(r.counters_json).last_used_at = None
  /\ file' = JsonlRecall(file, Words(<<"x">>), CliContext(t)).file
  /\ \E rs \in SqliteRecall(db, Words(<<"x">>), CliContext(t)) : db' = rs.db
  /\ last' = [last EXCEPT !.now = t]

NextCli ==
  \/ \E id \in CliIds, t \in Later : CliAdd(id, t)
  \/ \E id \in CliIds, t \in Later : CliEdit(id, t)
  \/ \E id \in CliIds, t \in Later : CliRm(id, t)
  \/ \E id \in CliIds, archived \in BOOLEAN, t \in Later : CliArchive(id, archived, t)
  \/ \E t \in Later : CliExport(t)
  \/ \E t \in Later : CliImport(t)
  \/ \E t \in Later : CliRecall(t)

SpecCli == InitCli /\ [][NextCli]_vars

\* C27 -- In every state the subcommands add, edit, archive, unarchive, rm,
\* import and recall of one writer with a non-decreasing clock lead to,
\* every stored item has created_at <= updated_at, and the updated_at of an
\* id is never lower in the next state than it is in this one.
Ordered ==
  /\ \A i \in 1..Len(read_all(file)) :
       read_all(file)[i].created_at <= read_all(file)[i].updated_at
  /\ \A r \in db : r.created_at <= r.updated_at

NeverLower ==
  \A id \in CliIds :
    /\ JsonlGet(file, id) # None /\ JsonlGet(file', id) # None =>
         JsonlGet(file', id)[1].updated_at >= JsonlGet(file, id)[1].updated_at
    /\ \A r \in db, q \in db' : r.id = id /\ q.id = id => q.updated_at >= r.updated_at

C27_Timestamps == []Ordered /\ [][NeverLower]_vars

\* ==================================================== the backend factory
\* The value of an environment variable is a string (the sequence of its
\* characters) or None when the variable is not set.  sqlite tells whether
\* the build has the relational backend (cargo feature "sqlite").
Str_sqlite == <<"s", "q", "l", "i", "t", "e">>
Str_SQLITE == <<"S", "Q", "L", "I", "T", "E">>
Str_jsonl == <<"j", "s", "o", "n", "l">>

\* choose_backend_from_env: std::env::var(..).unwrap_or_default(), then match
choose_backend_from_env(env, sqlite) ==
  LET v == IF env.backend = None THEN <<>> ELSE env.backend[1]
  IN  IF sqlite /\ (v = Str_sqlite \/ v = Str_SQLITE) THEN "Sqlite" ELSE "Jsonl"

\* open_repo_store(repo_root, backend): the backend and the path of the store
open_repo_store(backend, env, sqlite) ==
  LET be == IF backend # None THEN backend[1] ELSE choose_backend_from_env(env, sqlite)
  IN  IF be = "Jsonl"
      THEN [backend |-> be,
            path |-> IF env.repo_jsonl # None THEN env.repo_jsonl[1]
                     ELSE "<repo>/.codex/memory/memory.jsonl"]
      ELSE [backend |-> be,
            path |-> IF env.repo_db # None THEN env.repo_db[1]
                     ELSE "<repo>/.codex/memory/memory.db"]

\* open_global_store(home_dir, backend)
open_global_store(backend, env, sqlite) ==
  LET be == IF backend # None THEN backend[1] ELSE choose_backend_from_env(env, sqlite)
  IN  IF be = "Jsonl"
      THEN [backend |-> be,
            path |-> IF env.home_jsonl # None THEN env.home_jsonl[1]
                     ELSE "<home>/.codex/memory/memory.jsonl"]
      ELSE [backend |-> be,
            path |-> IF env.home_db # None THEN env.home_db[1]
                     ELSE "<home>/.codex/memory/memory.db"]

\* v.eq_ignore_ascii_case("sqlite") of the terminal front-end
sqlite_enabled(env, sqlite) ==
  sqlite /\ env.backend # None /\ Map(env.backend[1], fold) = Str_sqlite

\* the spellings of a word in every letter case
CaseVariants(l) ==
  {[k \in 1..Len(l) |->
      IF k \in U THEN UpperSeq[CHOOSE j \in 1..26 : LowerSeq[j] = l[k]] ELSE l[k]] :
     U \in SUBSET (1..Len(l))}

BackendValues ==
  {None} \cup {Some(v) : v \in CaseVariants(Str_sqlite) \cup CaseVariants(Str_jsonl)
                                \cup {<<>>, <<"p", "o", "s", "t", "g", "r", "e", "s">>}}

Environments ==
  {[backend |-> b, repo_jsonl |-> p, repo_db |-> p, home_jsonl |-> p, home_db |-> p] :
     b \in BackendValues, p \in {None, Some("/tmp/mem")}}

\* the explicit backends a caller can name in a build
Backends(sqlite) == IF sqlite THEN {"Jsonl", "Sqlite"} ELSE {"Jsonl"}

InitFactory ==
  /\ file = <<>>
  /\ db = {}
  /\ last \in {[op |-> "start", env |-> e, sqlite |-> s, backend |-> b] :
                 e \in Environments, s \in BOOLEAN, b \in {None, Some("Jsonl"), Some("Sqlite")}}
  /\ last.backend # None => last.backend[1] \in Backends(last.sqlite)

OpenRepoStore ==
  /\ last.op = "start"
  /\ last' = [op |-> "open_repo_store", env |-> last.env, sqlite |-> last.sqlite,
              backend |-> last.backend,
              store |-> open_repo_store(last.backend, last.env, last.sqlite)]
  /\ UNCHANGED <<file, db>>

OpenGlobalStore ==
  /\ last.op = "start"
  /\ last' = [op |-> "open_global_store", env |-> last.env, sqlite |-> last.sqlite,
              backend |-> last.backend,
              store |-> open_global_store(last.backend, last.env, last.sqlite)]
  /\ UNCHANGED <<file, db>>

\* the terminal front-end asks whether the relational store is in use, then
\* opens the repository store without naming a backend
TuiOpen ==
  /\ last.op = "start"
  /\ last.backend = None
  /\ last' = [op |-> "tui", env |-> last.env, sqlite |-> last.sqlite,
              backend |-> None, enabled |-> sqlite_enabled(last.env, last.sqlite),
              store |-> open_repo_store(None, last.env, last.sqlite)]
  /\ UNCHANGED <<file, db>>

NextFactory == OpenRepoStore \/ OpenGlobalStore \/ TuiOpen

SpecFactory == InitFactory /\ [][NextFactory]_vars

\* C29 -- An explicit backend argument takes precedence over the
\* environment; without it the environment variable selects the relational
\* backend for the value sqlite in any letter case, the file backend for
\* jsonl in any letter case, and the file backend when it is not set or
\* has any other value.  (Builds that have the relational backend.)
Selected(backend, env) ==
  IF backend # None THEN backend[1]
  ELSE IF env.backend # None /\ Map(env.backend[1], fold) = Str_sqlite THEN "Sqlite"
  ELSE "Jsonl"

C29_BackendSelection ==
  last.op \in {"open_repo_store", "open_global_store", "tui"} /\ last.sqlite =>
    last.store.backend = Selected(last.backend, last.env)

\* ====================================================== the durable preamble
\* A String is the sequence of its bytes; a character outside ASCII is the
\* sequence of the bytes of its UTF-8 encoding, named by their hex digits.
\* bytes of the words the items below are made of
as_bytes(w) ==
    CASE w = "prefer" -> <<"p", "r", "e", "f", "e", "r">>
      [] w = "ruff" -> <<"r", "u", "f", "f">>
      [] w = "Prefer" -> <<"P", "r", "e", "f", "e", "r">>
      [] w = "Ruff" -> <<"R", "u", "f", "f">>
      [] w = "uses" -> <<"u", "s", "e", "s">>
      [] w = "pytest" -> <<"p", "y", "t", "e", "s", "t">>
      [] w = "Uses" -> <<"U", "s", "e", "s">>
      [] w = "PyTest" -> <<"P", "y", "T", "e", "s", "t">>
      [] w = "remember" -> <<"r", "e", "m", "e", "m", "b", "e", "r">>
      [] w = "this" -> <<"t", "h", "i", "s">>
      [] w = "python" -> <<"p", "y", "t", "h", "o", "n">>
      [] w = "style" -> <<"s", "t", "y", "l", "e">>
      [] w = "ci" -> <<"c", "i">>
      [] w = "pref" -> <<"p", "r", "e", "f">>

Continuation == {"97", "80", "A6"}

RECURSIVE join(_, _)
join(strs, sep) ==
  IF strs = <<>> THEN <<>>
  ELSE IF Len(strs) = 1 THEN strs[1]
  ELSE strs[1] \o sep \o join(Tail(strs), sep)

\* the String of a content: its pieces, a blank between two of them
content_string(content) ==
  join([i \in 1..Len(content) |-> join(Map(content[i], as_bytes), <<>>)], <<" ">>)

\* the order of Strings, byte by byte
Ord(c) == IF c = " " THEN 0 ELSE CHOOSE k \in 1..26 : LowerSeq[k] = c

RECURSIVE StrLess(_, _)
StrLess(a, b) ==
  IF b = <<>> THEN FALSE
  ELSE IF a = <<>> THEN TRUE
  ELSE IF a[1] = b[1] THEN StrLess(Tail(a), Tail(b))
  ELSE Ord(a[1]) < Ord(b[1])

\* the tags of the items with the key, each once, in the order met
RECURSIVE merge_tags(_, _)
merge_tags(acc, tags) ==
  IF tags = <<>> THEN acc
  ELSE merge_tags(IF \E i \in 1..Len(acc) : acc[i] = tags[1] THEN acc
                  ELSE Append(acc, tags[1]), Tail(tags))

RECURSIVE entry_of(_, _, _)
entry_of(items, key, e) ==
  IF items = <<>> THEN e
  ELSE IF Map(items[1].content, fold) = key
       THEN entry_of(Tail(items), key,
                     [tags |-> merge_tags(e.tags, items[1].tags), cnt |-> e.cnt + 1])
       ELSE entry_of(Tail(items), key, e)

DigitSeq == <<"1", "2", "3", "4", "5", "6", "7", "8", "9">>

format_entry(k, e) ==
  LET tags == join(Map(e.tags, as_bytes), <<",", " ">>) IN
  IF e.cnt > 1 /\ e.tags # <<>>
  THEN k \o <<" ", "(", "t", "a", "g", "s", ":", " ">> \o tags \o <<" ", "C3", "97", DigitSeq[e.cnt], ")">>
  ELSE IF e.tags # <<>> THEN k \o <<" ", "(", "t", "a", "g", "s", ":", " ">> \o tags \o <<")">>
  ELSE k

\* the keys of a BTreeMap in its order
RECURSIVE sorted_keys(_)
sorted_keys(keys) ==
  IF keys = {} THEN <<>>
  ELSE LET k == CHOOSE k \in keys : \A o \in keys \ {k} : StrLess(k, o)
       IN  <<k>> \o sorted_keys(keys \ {k})

\* dedupe(items, cap) on (content, tags) pairs
dedupe(items, cap) ==
  LET keys == sorted_keys({Map(items[i].content, fold) : i \in 1..Len(items)})
      out == [i \in 1..Len(keys) |->
                format_entry(keys[i], entry_of(items, keys[i], [tags |-> <<>>, cnt |-> 0]))]
  IN  IF Len(out) > cap THEN SubSeq(out, 1, cap) ELSE out

PrefCap == 8
FactCap == 6

PREFS == <<"P", "r", "o", "j", "e", "c", "t", " ", "p", "r", "e", "f", "e", "r", "e", "n", "c", "e", "s", ":", "\n", "-", " ">>
FACTS == <<"P", "r", "o", "j", "e", "c", "t", " ", "f", "a", "c", "t", "s", ":", "\n", "-", " ">>
HEAD == <<"C", "o", "n", "t", "e", "x", "t", ":", " ", "T", "h", "e", " ", "f", "o", "l", "l", "o", "w", "i", "n", "g", " ", "p", "r", "o", "j", "e", "c", "t", " ", "m", "e", "m", "o", "r", "y", " ", "m", "a", "y", " ", "b", "e", " ", "h", "e", "l", "p", "f", "u", "l", ".", "\n">>
FOOT == <<"\n", "P", "l", "e", "a", "s", "e", " ", "f", "o", "l", "l", "o", "w", " ", "t", "h", "e", "s", "e", " ", "p", "r", "e", "f", "e", "r", "e", "n", "c", "e", "s", " ", "a", "n", "d", " ", "c", "o", "n", "s", "i", "d", "e", "r", " ", "t", "h", "e", "s", "e", " ", "f", "a", "c", "t", "s", ".">>
ELLIPSIS == <<"\n", "E2", "80", "A6">>

\* s.truncate(max_len): a panic when max_len is not on a character boundary
is_char_boundary(s, n) == n = 0 \/ n >= Len(s) \/ s[n + 1] \notin Continuation

\* the end of build_durable_preamble: truncate, mark, wrap
wrap(s, max_len) ==
  IF Len(s) > max_len
  THEN IF ~is_char_boundary(s, max_len) THEN [panic |-> TRUE, out |-> None]
       ELSE [panic |-> FALSE,
             out |-> Some(HEAD \o SubSeq(s, 1, max_len) \o ELLIPSIS \o FOOT)]
  ELSE [panic |-> FALSE, out |-> Some(HEAD \o s \o FOOT)]

\* the preamble made of the items recall returned: [panic, out]
preamble_of(items, max_len) ==
  LET pair(it) == [content |-> content_string(it.content), tags |-> it.tags]
      prefs == Map(SelectSeq(items, LAMBDA it : it.kind = "Pref"), pair)
      summaries == Map(SelectSeq(items, LAMBDA it : it.kind = "Fact"), pair)
      prefs_out == dedupe(prefs, PrefCap)
      summaries_out == dedupe(summaries, FactCap)
      parts == (IF prefs_out # <<>> THEN <<PREFS \o join(prefs_out, <<"\n", "-", " ">>)>> ELSE <<>>)
                 \o (IF summaries_out # <<>>
                     THEN <<FACTS \o join(summaries_out, <<"\n", "-", " ">>)>> ELSE <<>>)
  IN  IF prefs = <<>> /\ summaries = <<>> THEN [panic |-> FALSE, out |-> None]
      ELSE wrap(join(parts, <<"\n", "\n">>), max_len)

PreambleContext(max_len) ==
  [current_file |-> None, crate_name |-> None, language |-> None, command |-> None,
   now |-> 1, item_cap |-> 16, token_cap |-> max_len * 2]

PreambleItem(id, kind, content, tags) ==
  [id |-> id, created_at |-> 1, updated_at |-> 1, schema_version |-> 1,
   source |-> "test", scope |-> "Repo", status |-> "Active", kind |-> kind,
   content |-> content, tags |-> tags, relevance_hints |-> RelevanceHints0,
   counters |-> Counters0, expiry |-> None]

\* the four items of the test preamble_dedupes_merges_and_caps, and a note
PreambleItems ==
  <<PreambleItem("1", "Pref", Words(<<"prefer", "ruff">>), <<"python", "style">>),
    PreambleItem("2", "Pref", Words(<<"Prefer", "Ruff">>), <<"style">>),
    PreambleItem("3", "Fact", Words(<<"uses", "pytest">>), <<"python">>),
    PreambleItem("4", "Fact", Words(<<"Uses", "PyTest">>), <<"ci">>),
    PreambleItem("5", "Note", Words(<<"remember", "this">>), <<>>)>>

MaxLens == {0, 16, 57, 64, 512}

AddP(k) ==
  /\ \A i \in 1..Len(read_all(file)) : \A j \in k..Len(PreambleItems) :
       read_all(file)[i].id # PreambleItems[j].id
  /\ AddItem(PreambleItems[k])

\* build_durable_preamble(max_len) on a store no recall has written to;
\* the recall inside it writes the counters of the items it returns
BuildPreamble(max_len) ==
  /\ Recalled(read_all(file)) = <<>>
  /\ \A r \in db : json_value(r.counters_json).last_used_at = None
  /\ \E rs \in SqliteRecall(db, <<>>, PreambleContext(max_len)) :
       /\ file' = JsonlRecall(file, <<>>, PreambleContext(max_len)).file
       /\ db' = rs.db
       /\ last' = [op |-> "preamble", max_len |-> max_len,
                   outJ |-> preamble_of(JsonlRecall(file, <<>>, PreambleContext(max_len)).out,
                                        max_len),
                   outS |-> preamble_of(rs.out, max_len)]

NextPreamble ==
  \/ \E k \in 1..Len(PreambleItems) : AddP(k)
  \/ \E max_len \in MaxLens : BuildPreamble(max_len)

SpecPreamble == Init /\ [][NextPreamble]_vars

\* C30 -- For every store content and every max_len the string
\* build_durable_preamble(max_len) returns has a total length of at most
\* max_len.
C30_LengthBound ==
  last.op = "preamble" =>
    /\ last.outJ.out # None => Len(last.outJ.out[1]) <= last.max_len
    /\ last.outS.out # None => Len(last.outS.out[1]) <= last.max_len

\* ==================================== a reader beside a writer of the file
\* One process rewrites the file (write_all: std::fs::write creates the
\* file anew, which empties it, then writes the bytes), another process
\* reads it (read_all: read_to_string).  last = [pc, pre, post, k, seen]:
\* where the writer is, the file before and after its operation, the lines
\* it has written, and what the reader has read (None before it reads).
Idle == [pc |-> "idle", pre |-> <<>>, post |-> <<>>, k |-> 0, seen |-> None]

InitTorn ==
  /\ file = <<>>
  /\ db = {}
  /\ last = Idle

\* add appends one line
TornAdd(item) ==
  /\ last = Idle
  /\ Len(file) < MaxFile
  /\ file' = JsonlAdd(file, item)
  /\ UNCHANGED <<db, last>>

\* the writer has read the file and made the items to write
Begin(post) ==
  /\ last = Idle
  /\ last' = [last EXCEPT !.pc = "begin", !.pre = file, !.post = post]
  /\ UNCHANGED <<file, db>>

BeginUpdate(item) == Begin(JsonlUpdate(file, item))
BeginDelete(id) == Begin(JsonlDelete(file, id))
BeginArchive(id, archived) == Begin(JsonlArchive(file, id, archived))
BeginImport(data) == \E res \in JsonlImport(file, data) : Begin(res.file)

\* std::fs::write: File::create truncates the file
Create ==
  /\ last.pc = "begin"
  /\ last.seen = None
  /\ file' = <<>>
  /\ last' = [last EXCEPT !.pc = "writing", !.k = 0]
  /\ UNCHANGED db

\* .. a write that ends inside a line
WritePart ==
  /\ last.pc = "writing"
  /\ last.seen = None
  /\ last.k < Len(last.post)
  /\ file = SubSeq(last.post, 1, last.k)
  /\ file' = Append(file, BadLine)
  /\ UNCHANGED <<db, last>>

\* .. a write that ends at the end of a line
WriteLine ==
  /\ last.pc = "writing"
  /\ last.seen = None
  /\ last.k < Len(last.post)
  /\ file' = SubSeq(last.post, 1, last.k + 1)
  /\ last' = [last EXCEPT !.k = @ + 1]
  /\ UNCHANGED db

\* .. the file is closed, the operation returns
Close ==
  /\ last.pc = "writing"
  /\ last.seen = None
  /\ last.k = Len(last.post)
  /\ last' = Idle
  /\ UNCHANGED <<file, db>>

\* the reader's read_all: what get, list, export and stats are made from
Read ==
  /\ last.seen = None
  /\ last.pc # "idle"
  /\ last' = [last EXCEPT !.seen = Some(file)]
  /\ UNCHANGED <<file, db>>

\* the reader's operation returns
Return ==
  /\ last.seen # None
  /\ last' = [last EXCEPT !.seen = None]
  /\ UNCHANGED <<file, db>>

NextTorn ==
  \/ \E item \in Items : TornAdd(item)
  \/ \E item \in Items : BeginUpdate(item)
  \/ \E id \in Ids : BeginDelete(id)
  \/ \E id \in Ids, archived \in BOOLEAN : BeginArchive(id, archived)
  \/ \E data \in Streams : BeginImport(data)
  \/ Create
  \/ WritePart
  \/ WriteLine
  \/ Close
  \/ Read
  \/ Return

SpecTorn == InitTorn /\ [][NextTorn]_vars

\* C28 -- While one process rewrites the file (update, delete, archive or
\* import), the result of get, list, export or stats of another process
\* is its result on the file as it was before the rewrite or as it is after
\* it; the reader never sees an empty, cut or partly written file.
ReaderResults(f) ==
  [get |-> [id \in Ids |-> JsonlGet(f, id)],
   list |-> JsonlList(f, None, None),
   export |-> JsonlExport(f),
   stats |-> JsonlStats(f)]

C28_NoTornRead ==
  last.seen # None =>
    \/ ReaderResults(last.seen[1]) = ReaderResults(last.pre)
    \/ ReaderResults(last.seen[1]) = ReaderResults(last.post)

\* ------------------------------------------- the core (phase 1) JSONL store
\* core/src/memory.rs: its own MemoryItem and JsonlMemoryStore.  The file is
\* read and written as above (blank and unparseable lines are skipped, one
\* line per item is written).
\*
\* counters.used_count is a u64.  A value is written from the end of the
\* range it is near: FromZero(n) is n, FromMax(n) is u64::MAX - n.
FromZero(n) == [top |-> FALSE, n |-> n]
FromMax(n) == [top |-> TRUE, n |-> n]

\* (variant: wrapping_add(1))
saturating_add_Wrap(c) ==
  IF c.top THEN (IF c.n = 0 THEN FromZero(0) ELSE FromMax(c.n - 1))
  ELSE FromZero(c.n + 1)

\* c.saturating_add(1)
saturating_add(c) ==
  IF c.top THEN (IF c.n = 0 THEN c ELSE FromMax(c.n - 1))
  ELSE FromZero(c.n + 1)

CoreItem(id, type, status, content, used_count) ==
  [id |-> id, created_at |-> 1, updated_at |-> 1, scope |-> "Global",
   status |-> status, type |-> type, content |-> content, tags |-> <<>>,
   relevance_hints |-> [files |-> <<>>, crates |-> <<>>, langs |-> <<>>],
   counters |-> [seen_count |-> 0, used_count |-> used_count, last_used_at |-> None],
   expiry |-> None]

\* overlap_score(a, b) = |a \cap b| / |a|, 0 when a or b is empty; the
\* score of an item, exactly, in units of 1 / (10 * n), n the number of
\* tokens of the prompt (1 for a prompt without tokens).  The code adds the
\* terms in f32; on the items and prompts below two f32 scores compare as
\* the two exact scores do.
CoreScore(it, ctx) ==
  LET tokens == tokenize(ctx.prompt)
      n == IF tokens = {} THEN 1 ELSE Cardinality(tokens)
      boost ==
          (IF it.type \in {"Pref", "Instruction"} THEN 3 ELSE 0)
        + (IF ctx.current_file # None
              /\ \E h \in Range(it.relevance_hints.files) :
                   ends_with(ctx.current_file[1], h)
           THEN 4 ELSE 0)
        + (IF ctx.current_crate # None
              /\ \E h \in Range(it.relevance_hints.crates) : h = ctx.current_crate[1]
           THEN 3 ELSE 0)
        + (IF ctx.lang # None
              /\ \E h \in Range(it.relevance_hints.langs) :
                   eq_ignore_ascii_case(h, ctx.lang[1])
           THEN 2 ELSE 0)
        + (IF \E t \in Range(it.tags) : to_ascii_lowercase(t) \in tokens
           THEN 1 ELSE 0)
  IN  10 * Overlap(tokens, tokenize(it.content)) + n * boost

\* scores: HashMap<id, f32>; a later item of the same id replaces the score
CoreScores(items, ctx) ==
  [id \in {items[i].id : i \in 1..Len(items)} |->
     LET last_i == CHOOSE i \in 1..Len(items) :
                     /\ items[i].id = id
                     /\ \A j \in 1..Len(items) : items[j].id = id => j <= i
     IN  CoreScore(items[last_i], ctx)]

\* items.sort_by(score descending, then updated_at descending): stable
RECURSIVE CoreSort(_, _, _)
CoreSort(sorted, rest, scores) ==
  IF rest = <<>> THEN sorted
  ELSE LET x == rest[1]
           Before(a, b) ==
             \/ scores[a.id] > scores[b.id]
             \/ scores[a.id] = scores[b.id] /\ a.updated_at > b.updated_at
           k == Cardinality({i \in 1..Len(sorted) : ~Before(x, sorted[i])})
       IN  CoreSort(SubSeq(sorted, 1, k) \o <<x>> \o SubSeq(sorted, k + 1, Len(sorted)),
                    Tail(rest), scores)

Min(a, b) == IF a <= b THEN a ELSE b
Max(a, b) == IF a >= b THEN a ELSE b

WantCap == 8

\* the item as recall returns and stores it
CoreUsed(it, now) ==
  [it EXCEPT !.counters.used_count = saturating_add(@),
             !.counters.last_used_at = Some(now),
             !.updated_at = now]

\* recall: [file, out].  The items kept after retain (the active ones) are
\* sorted, the first n are counted, and the kept items are written.
CoreRecall(f, ctx, now) ==
  LET items == SelectSeq(read_all(f), LAMBDA i : i.status = "Active")
      sorted == CoreSort(<<>>, items, CoreScores(items, ctx))
      n == Min(Min(Max(ctx.want, 1), WantCap), Len(sorted))
      after == [i \in 1..Len(sorted) |->
                  IF i <= n THEN CoreUsed(sorted[i], now) ELSE sorted[i]]
  IN  [file |-> IF n > 0 THEN write_all(after) ELSE f,
       out |-> SubSeq(after, 1, n)]

\* add: append one line
CoreAdd(f, item) == Append(f, to_string(item))

\* update: replace every record with the id, rewrite the file
CoreUpdate(f, item) ==
  write_all(Map(read_all(f), LAMBDA it : IF it.id = item.id THEN item ELSE it))

\* remove: drop every record with the id, rewrite the file
CoreRemove(f, id) == write_all(SelectSeq(read_all(f), LAMBDA i : i.id # id))

\* ---- the stores the core recall is run on
MaxCore == 3      \* lines the file may hold before add is no longer called
MaxUsed == 2      \* recall is no longer called once an item was returned so often

\* The items of the two tests of core/src/memory.rs, an item whose
\* used_count is u64::MAX - 1, an archived note, and a second item with
\* the id "a".
CoreItems ==
  <<CoreItem("a", "Pref", "Active", Words(<<"Remember", "me">>), FromZero(0)),
    CoreItem("b", "Pref", "Active", Words(<<"Use", "rg", "for", "search">>), FromZero(0)),
    CoreItem("c", "Instruction", "Active",
             Words(<<"Run", "just", "fmt", "before", "PR">>), FromMax(1)),
    CoreItem("d", "Note", "Archived", Words(<<"rg">>), FromZero(0)),
    CoreItem("a", "Note", "Active", Words(<<"search">>), FromZero(0))>>

CoreIds == {"a", "b", "c", "d"}

\* a file of nine active notes, written by an earlier run
NineIds == <<"1", "2", "3", "4", "5", "6", "7", "8", "9">>
NineNotes ==
  [i \in 1..9 |-> to_string(CoreItem(NineIds[i], "Note", "Active",
                                        Words(<<"note">>), FromZero(0)))]

CorePrompts == {Words(<<"remember">>), Words(<<"please", "search", "with", "rg">>)}
Wants == {0, 2, 9}

CoreContext(prompt, want) ==
  [prompt |-> prompt, current_file |-> None, current_crate |-> None,
   lang |-> None, want |-> want]

CoreNows == 1..2

\* last.now is the clock at the last call, last.call the want of the call
\* if it was a recall, last.out what it returned; last.track maps every id
\* that has one record in the file to used_count when the record was
\* written (init) and the number of recalls that returned it since (k).
Track(f, old, out, fresh) ==
  LET items == read_all(f)
      N(id) == Cardinality({i \in 1..Len(items) : items[i].id = id})
      The(id) == items[CHOOSE i \in 1..Len(items) : items[i].id = id]
      ids == {id \in {items[i].id : i \in 1..Len(items)} : N(id) = 1}
  IN  [id \in ids |->
         IF id \in DOMAIN old /\ id \notin fresh
         THEN [old[id] EXCEPT
                 !.k = @ + Cardinality({i \in 1..Len(out) : out[i].id = id})]
         ELSE [init |-> The(id).counters.used_count, k |-> 0]]

InitCore ==
  /\ file \in {<<>>, NineNotes}
  /\ db = {}
  /\ last = [now |-> 1, call |-> None, out |-> <<>>,
             track |-> Track(file, <<>>, <<>>, {})]

\* the items are added in the order of CoreItems, any of them left out
CoreAddItem(item) ==
  /\ Len(file) < MaxCore
  /\ \A i \in 1..Len(read_all(file)), j \in 1..Len(CoreItems) :
       Same(read_all(file)[i], CoreItems[j]) =>
         \E k \in (j + 1)..Len(CoreItems) : CoreItems[k] = item
  /\ file' = CoreAdd(file, item)
  /\ last' = [now |-> last.now, call |-> None, out |-> <<>>,
              track |-> Track(file', last.track, <<>>, {item.id})]
  /\ UNCHANGED db

CoreUpdateItem(item) ==
  /\ \E i \in 1..Len(read_all(file)) : read_all(file)[i].id = item.id
  /\ file' = CoreUpdate(file, item)
  /\ last' = [now |-> last.now, call |-> None, out |-> <<>>,
              track |-> Track(file', last.track, <<>>, {item.id})]
  /\ UNCHANGED db

CoreRemoveId(id) ==
  /\ file' = CoreRemove(file, id)
  /\ last' = [now |-> last.now, call |-> None, out |-> <<>>,
              track |-> Track(file', last.track, <<>>, {id})]
  /\ UNCHANGED db

CoreRecallCall(ctx, now) ==
  /\ now >= last.now
  /\ \A i \in 1..Len(read_all(file)) :
       LET c == read_all(file)[i].counters.used_count
       IN  ~c.top => c.n < MaxUsed
  /\ \A id \in DOMAIN last.track : last.track[id].k < MaxUsed
  /\ file' = CoreRecall(file, ctx, now).file
  /\ last' = [now |-> now, call |-> Some(ctx.want),
              out |-> CoreRecall(file, ctx, now).out,
              track |-> Track(file', last.track, CoreRecall(file, ctx, now).out, {})]
  /\ UNCHANGED db

NextCore ==
  \/ \E item \in Range(CoreItems) : CoreAddItem(item)
  \/ \E item \in Range(CoreItems) : CoreUpdateItem(item)
  \/ \E id \in CoreIds \cup {"1"} : CoreRemoveId(id)
  \/ \E prompt \in CorePrompts, want \in Wants, now \in CoreNows :
       CoreRecallCall(CoreContext(prompt, want), now)

SpecCore == InitCore /\ [][NextCore]_vars

\* ------------------------------------------- the claims on the core store
TheRecord(f, id) ==
  LET items == read_all(f)
  IN  items[CHOOSE i \in 1..Len(items) : items[i].id = id]

\* what a recall returned is in the file, stamped with the time of the call
Stamped ==
  \A i \in 1..Len(last.out) :
    /\ i <= Len(read_all(file)) /\ read_all(file)[i] = last.out[i]
    /\ last.out[i].counters.last_used_at = Some(last.now)
    /\ last.out[i].updated_at = last.now

\* a recall returns min(max(want, 1), 8, number of active items) items, and
\* never moves last_used_at of an item back
CountAndOrder ==
  last'.call # None =>
    /\ Len(last'.out) =
         Min(Min(Max(last'.call[1], 1), 8),
             Len(SelectSeq(read_all(file), LAMBDA i : i.status = "Active")))
    /\ \A id \in DOMAIN last.track \cap DOMAIN last'.track :
         LET was == TheRecord(file, id).counters.last_used_at
             is == TheRecord(file', id).counters.last_used_at
         IN  was # None => is # None /\ is[1] >= was[1]

\* used_count is exactly init + k
ExactCount ==
  \A id \in DOMAIN last.track :
    LET t == last.track[id]
        c == TheRecord(file, id).counters.used_count
    IN  /\ c.top = t.init.top
        /\ c.n = IF t.init.top THEN t.init.n - t.k ELSE t.init.n + t.k

\* used_count is min(init + k, u64::MAX)
SaturatedCount ==
  \A id \in DOMAIN last.track :
    LET t == last.track[id]
        c == TheRecord(file, id).counters.used_count
    IN  /\ c.top = t.init.top
        /\ c.n = IF t.init.top THEN Max(t.init.n - t.k, 0) ELSE t.init.n + t.k

\* C31 (as stated) -- In the core JSONL store every recall adds exactly one
\* to used_count of every item it returns and writes the time of the call
\* to its last_used_at and updated_at in the file, so that k recalls that
\* returned an item leave used_count = initial + k and last_used_at never
\* moves back; a recall returns min(max(want, 1), 8, number of active
\* items) items.
C31_ExactlyOne == [](Stamped /\ ExactCount) /\ [][CountAndOrder]_vars

\* C31 (amended) -- The same, with used_count = min(initial + k, u64::MAX):
\* the addition saturates.
C31_Saturating == [](Stamped /\ SaturatedCount) /\ [][CountAndOrder]_vars

\* an item near u64::MAX and an item near 0 were each returned by two
\* recalls, the last of them at a later time, returning three items
C31_Witness ==
  /\ \E id \in DOMAIN last.track :
       last.track[id].k = 2 /\ last.track[id].init.top
  /\ \E id \in DOMAIN last.track :
       last.track[id].k = 2 /\ ~last.track[id].init.top
  /\ last.now = 2 /\ Len(last.out) = 3

\* ----------------------------------------- the memory file and its writers
\* .codex/memory/memory.jsonl is the file of the repo store and also the
\* file MemoryLogger::write_line appends its event records to.  An event
\* record ({"id", "ts", "repo", "type", "content", "tags", ...}) is a JSON
\* object that is not a MemoryItem: from_str gives None for it.
EventLine(id, type, content) ==
  [tag |-> "event", body |-> [id |-> id, type |-> type, content |-> content]]

\* log_exec: write_line of an "exec" record
LogExec ==
  /\ Len(file) < MaxFile
  /\ file' = Append(file, EventLine("e", "exec", "ls"))
  /\ last' = Call("log_exec", "-", TRUE)
  /\ UNCHANGED db

\* the read operations: they open the file for reading only
Get(id) ==
  /\ last' = Call("get", id, SqliteGet(db, id).ok)
  /\ UNCHANGED <<file, db>>

List(scope, status) ==
  /\ \E l \in SqliteList(db, scope, status) : last' = Call("list", "-", l.ok)
  /\ UNCHANGED <<file, db>>

Export ==
  /\ \E e \in SqliteExport(db) : last' = Call("export", "-", e.ok)
  /\ UNCHANGED <<file, db>>

Stats ==
  /\ last' = Call("stats", "-", TRUE)
  /\ UNCHANGED <<file, db>>

NextFile ==
  \/ \E item \in Items : Add(item)
  \/ \E item \in Items : Update(item)
  \/ \E id \in Ids : Delete(id)
  \/ \E id \in Ids, archived \in BOOLEAN : Archive(id, archived)
  \/ \E data \in Streams : Import(data)
  \/ LogExec
  \/ \E id \in Ids : Get(id)
  \/ \E status \in {None, Some("Active")} : List(None, status)
  \/ Export
  \/ Stats

SpecFile == Init /\ [][NextFile]_vars

\* C32 -- After every operation of the file backend other than add (update,
\* delete, archive, import, get, list, export, stats) the file is exactly
\* the lines of the items read from it, one line per item in their order,
\* without blank or unparseable lines, whatever it held before.
C32_FileIsView ==
  last.op \notin {"new", "add", "log_exec"} => file = write_all(read_all(file))

\* ------------------------------------------- further claims on recall
\* C33 -- For every store, prompt and context, recall returns at most
\* item_cap items whose contents have at most token_cap whitespace tokens
\* in all, and every returned item is a whole listed item, counted in full.
WithinBudget(listed, out, ctx) ==
  /\ Len(out) <= ctx.item_cap
  /\ SumTokens(out) <= ctx.token_cap
  /\ \A i \in 1..Len(out) : \E j \in 1..Len(listed) : out[i] = Used(listed[j], ctx)

C33_Budget ==
  \A prompt \in Prompts, ctx \in Contexts :
    /\ WithinBudget(JsonlList(file, None, Some("Active")),
                    JsonlRecall(file, prompt, ctx).out, ctx)
    /\ \A l \in SqliteList(db, None, Some("Active")) :
         l.ok /\ WithinBudget(l.val, Selection(l.val, prompt, ctx), ctx)

\* a recall that returned an item and left out another one for its tokens
\* alone: fewer than item_cap items came back
C33_Witness ==
  \E prompt \in Prompts, ctx \in Contexts :
    LET listed == JsonlList(file, None, Some("Active"))
        out == JsonlRecall(file, prompt, ctx).out
    IN  /\ out # <<>>
        /\ Len(out) < ctx.item_cap
        /\ Len(out) < Len(listed)
        /\ SumTokens(out) > 0

\* ---- stores whose items differ in updated_at and tie in score
\* Three notes of the same content written at the times 1, 2 and 2, and a
\* note no prompt below matches.
TieItems ==
  {[RecallItem(p[1], Words(<<"cargo", "build">>), Hints(<<>>, <<>>, <<>>, <<>>), 0)
      EXCEPT !.updated_at = p[2]] : p \in {<<"a", 1>>, <<"b", 2>>, <<"c", 2>>}}
    \cup {RecallItem("d", Words(<<"npm">>), Hints(<<>>, <<>>, <<>>, <<>>), 0)}

\* add of an id that is not in the store
AddT(item) ==
  /\ Len(file) < MaxStore
  /\ JsonlGet(file, item.id) = None
  /\ AddItem(item)

NextTie ==
  \/ \E item \in TieItems : AddT(item)
  \/ \E id \in RecallIds, archived \in BOOLEAN : ArchiveR(id, archived)
  \/ \E prompt \in Prompts, ctx \in {c \in Contexts : c.now = 1} : Recall(prompt, ctx)

SpecTie == Init /\ [][NextTie]_vars

\* the listed items in the order recall considers them
Considered(listed, prompt, ctx) ==
  SortDesc(<<>>, Map(listed, LAMBDA i : Scored(i, tokenize(prompt), ctx)))

TiesNewestFirst(listed, prompt, ctx) ==
  LET ranked == Considered(listed, prompt, ctx)
  IN  \A i, j \in 1..Len(ranked) :
        i < j /\ ranked[i].score = ranked[j].score =>
          ranked[i].item.updated_at >= ranked[j].item.updated_at

\* C34 -- Among active items of equal score recall considers, and so
\* returns, the items in updated_at-descending order, on both backends.
C34_TieOrder ==
  \A prompt \in Prompts, ctx \in Contexts :
    /\ TiesNewestFirst(JsonlList(file, None, Some("Active")), prompt, ctx)
    /\ \A l \in SqliteList(db, None, Some("Active")) :
         l.ok /\ TiesNewestFirst(l.val, prompt, ctx)

\* ------------------------------------------------ span merge and masking
\* The merge and the masking of redact_candidate as a function of the spans
\* the passes recorded: the ranges of any matches, pushed through push_span
\* in any order, on an input of five bytes none of which is in [REDACTED].
MaxSpans == 3     \* matches pushed

SpanInput == <<"0", "1", "2", "3", "4">>

\* the byte ranges (start, end) a match of one byte or more can have
Ranges == {r \in (0..Len(SpanInput)) \X (0..Len(SpanInput)) : r[1] < r[2]}

InitSpans ==
  /\ file = <<>>
  /\ db = {}
  /\ last \in {[op |-> "scan", s |-> SpanInput,
                spans |-> push_all([spans |-> <<>>, issues |-> <<>>], ms, "issue").spans] :
                 ms \in SeqUpTo(Ranges, MaxSpans)}

\* redact.rs 64-86: sort, merge, build the masked string
MergeAndMask ==
  /\ last.op = "scan"
  /\ last' = [op |-> "mask", s |-> last.s, spans |-> last.spans,
              merged |-> merge(<<>>, sort_by_start(<<>>, last.spans)),
              masked |-> mask(last.s, merge(<<>>, sort_by_start(<<>>, last.spans)), 0)]
  /\ UNCHANGED <<file, db>>

NextSpans == MergeAndMask

SpecSpans == InitSpans /\ [][NextSpans]_vars

\* the byte positions (1-based) a list of spans covers
Covered(spans) == UNION {(spans[k][1] + 1)..spans[k][2] : k \in 1..Len(spans)}

\* the input with every covered stretch replaced by one sentinel
RECURSIVE Replaced(_, _, _)
Replaced(s, cov, i) ==
  IF i > Len(s) THEN <<>>
  ELSE (IF i \notin cov THEN <<s[i]>>
        ELSE IF i = 1 \/ (i - 1) \notin cov THEN SENTINEL ELSE <<>>)
       \o Replaced(s, cov, i + 1)

\* C35 -- For every list of recorded spans the merged spans are sorted,
\* pairwise disjoint and non-adjacent and cover exactly the bytes the
\* recorded spans cover; masked is the input with each merged span replaced
\* by one [REDACTED] and every other byte kept in order, so that no byte of
\* a recorded span is in masked.
C35_MergeAndMask ==
  last.op = "mask" =>
    /\ \A k \in 1..(Len(last.merged) - 1) : last.merged[k][2] < last.merged[k + 1][1]
    /\ \A k \in 1..Len(last.merged) : last.merged[k][1] < last.merged[k][2]
    /\ Covered(last.merged) = Covered(last.spans)
    /\ last.masked = Replaced(last.s, Covered(last.spans), 1)
    /\ Len(last.masked) =
         Len(last.s) - Cardinality(Covered(last.spans)) + Len(SENTINEL) * Len(last.merged)
    /\ \A i \in Covered(last.spans) : last.s[i] \notin Range(last.masked)

\* three spans recorded out of order, one overlapping and one adjacent to
\* another, merged into two
C35_Witness ==
  /\ last.op = "mask"
  /\ last.spans = <<<<3, 4>>, <<0, 2>>, <<1, 3>>>>
  /\ last.merged = <<<<0, 4>>>>
  /\ last.masked = SENTINEL \o <<"4">>

\* ---------------------------------------------- compact_jsonl step by step
\* The run of compact_jsonl(input_path, output_path) on the memory file, one
\* line a step, with an error possible at every step (`?`).  last is
\*   pc       "idle", "loop", "flushed", "done" or "failed"
\*   output   the output path
\*   input    the content of the input file when the run began
\*   tmp      the content written to tmp_path
\*   pos      the lines of the input read so far
\*   seen     the ids seen
InputPath == "memory.jsonl"
OtherPath == "compacted.jsonl"

\* (variant: the output path itself is written)
tmp_path_Direct(input_path, output_path) == output_path

\* migrate.rs 52-58
tmp_path(input_path, output_path) ==
  IF output_path = input_path THEN "memory.jsonl.tmp" ELSE output_path

\* the lines of the files compaction is run on
CompactLines ==
  {to_string(MemoryItem("a", 1, 1, "Repo", "Active")),
   pad(to_string(MemoryItem("a", 2, 2, "Global", "Archived"))),
   to_string(MemoryItem("b", 1, 1, "Repo", "Active")),
   BlankLine, BadLine}

InitCompact ==
  /\ file \in SeqUpTo(CompactLines, MaxLines)
  /\ db = {}
  /\ last = [pc |-> "idle", output |-> InputPath, input |-> file,
             tmp |-> <<>>, pos |-> 0, seen |-> {}]

\* File::open(input_path), create_dir_all, File::create(tmp_path)
OpenFiles(output_path) ==
  /\ last.pc = "idle"
  /\ last' = [pc |-> "loop", output |-> output_path, input |-> file,
              tmp |-> <<>>, pos |-> 0, seen |-> {}]
  /\ file' = IF tmp_path(InputPath, output_path) = InputPath THEN <<>> ELSE file
  /\ UNCHANGED db

\* one turn of the loop over reader.lines()
CompactLine ==
  /\ last.pc = "loop"
  /\ last.pos < Len(file)
  /\ LET trimmed == trim(file[last.pos + 1])
         keep == /\ ~is_blank(trimmed)
                 /\ from_str(trimmed) # None
                 /\ from_str(trimmed)[1].id \notin last.seen
     IN  last' = [last EXCEPT
                    !.pos = @ + 1,
                    !.seen = IF keep THEN @ \cup {from_str(trimmed)[1].id} ELSE @,
                    !.tmp = IF keep THEN Append(@, trimmed) ELSE @]
  /\ UNCHANGED <<file, db>>

\* writer.flush() after the last line
Flush ==
  /\ last.pc = "loop"
  /\ last.pos = Len(file)
  /\ last' = [last EXCEPT !.pc = "flushed"]
  /\ file' = IF tmp_path(InputPath, last.output) = InputPath THEN last.tmp ELSE file
  /\ UNCHANGED db

\* std::fs::rename(tmp_path, output_path) when the paths are equal; Ok
Rename ==
  /\ last.pc = "flushed"
  /\ last' = [last EXCEPT !.pc = "done"]
  /\ file' = IF last.output = InputPath /\ tmp_path(InputPath, last.output) # InputPath
             THEN last.tmp ELSE file
  /\ UNCHANGED db

\* an error of open, create, a read, a write, flush or rename: Err is
\* returned from where the run stands
CompactFails ==
  /\ last.pc \in {"idle", "loop", "flushed"}
  /\ last' = [last EXCEPT !.pc = "failed"]
  /\ UNCHANGED <<file, db>>

NextCompact ==
  \/ \E output_path \in {InputPath, OtherPath} : OpenFiles(output_path)
  \/ CompactLine
  \/ Flush
  \/ Rename
  \/ CompactFails

SpecCompact == InitCompact /\ [][NextCompact]_vars

\* C36 -- Compaction in place is all or nothing: until the rename, and
\* after a failure at any step before it, the input file has its original
\* content; after success it holds the complete deduplicated content.
C36_AllOrNothing ==
  last.output = InputPath =>
    /\ last.pc \in {"idle", "loop", "flushed", "failed"} => file = last.input
    /\ last.pc = "done" => file = compact_jsonl(last.input).out

\* a run in place that failed after it had written a line of a file of
\* three lines with a repeated id
C36_Witness ==
  /\ last.pc = "failed"
  /\ last.output = InputPath
  /\ last.tmp # <<>>
  /\ Len(file) = 3
  /\ Len(compact_jsonl(file).out) < Len(read_all(file))

\* ------------------------------------------ an add during a rewrite
\* Two processes on the same file.  One appends (add); the other runs an
\* update, archive, delete or import: read_all, then write_all of what it
\* made of the items it read.  last is
\*   pc      "idle", or "read" when the rewriting process has read the file
\*   ids     the ids its operation names
\*   post    the lines it is going to write
\*   gone    the id it deletes, if it is a delete
\*   added   the ids added with success and not deleted since
Quiet(added) ==
  [pc |-> "idle", ids |-> {}, post |-> <<>>, gone |-> None, added |-> added]

InitRace ==
  /\ file = <<>>
  /\ db = {}
  /\ last = Quiet({})

\* add: one append; it names an id the running rewrite does not name
RaceAdd(item) ==
  /\ Len(file) < MaxFile
  /\ item.id \notin last.ids
  /\ file' = JsonlAdd(file, item)
  /\ last' = [last EXCEPT !.added = @ \cup {item.id}]
  /\ UNCHANGED db

\* read_all and the change made in memory
ReadAll(ids, post, gone) ==
  /\ last.pc = "idle"
  /\ last' = [pc |-> "read", ids |-> ids, post |-> post, gone |-> gone,
              added |-> last.added]
  /\ UNCHANGED <<file, db>>

ReadForUpdate(item) == ReadAll({item.id}, JsonlUpdate(file, item), None)
ReadForDelete(id) == ReadAll({id}, JsonlDelete(file, id), Some(id))
ReadForArchive(id, archived) == ReadAll({id}, JsonlArchive(file, id, archived), None)
ReadForImport(data) ==
  \E res \in JsonlImport(file, data) :
    ReadAll({Parsed(data)[i].id : i \in 1..Len(Parsed(data))}, res.file, None)

\* write_all: the file is replaced by the lines made
WriteAll ==
  /\ last.pc = "read"
  /\ file' = last.post
  /\ last' = Quiet(IF last.gone = None THEN last.added ELSE last.added \ {last.gone[1]})
  /\ UNCHANGED db

NextRace ==
  \/ \E item \in Items : RaceAdd(item)
  \/ \E item \in Items : ReadForUpdate(item)
  \/ \E id \in Ids : ReadForDelete(id)
  \/ \E id \in Ids, archived \in BOOLEAN : ReadForArchive(id, archived)
  \/ \E data \in Streams : ReadForImport(data)
  \/ WriteAll

SpecRace == InitRace /\ [][NextRace]_vars

\* C37 -- An item whose add returned with success is retrievable with get
\* until its id is deleted, also when the add falls between the read and
\* the write of another process's update, archive, delete or import of
\* other ids.
C37_AddDurable == \A id \in last.added : JsonlGet(file, id) # None

\* C38 -- Compacting a file and importing (or migrating) the result into an
\* empty store gives the store that importing (or migrating) the file
\* itself gives: for every id compaction keeps the record import keeps.
C38_CompactThenImport ==
  /\ {r.file : r \in JsonlImport(<<>>, compact_jsonl(file).out)}
       = {r.file : r \in JsonlImport(<<>>, file)}
  /\ SqliteImport({}, compact_jsonl(file).out).db = SqliteImport({}, file).db
  /\ migrate_jsonl_to_sqlite(compact_jsonl(file).out, {}).db
       = migrate_jsonl_to_sqlite(file, {}).db


\* ------------------------------------------- the terminal front-end's memory
\* MemoryLogger works on <repo>/.codex/memory/memory.jsonl with write_line
\* and on the repository store open_repo_store(None) selects.  The build has
\* the relational backend; last = [op, env, n, text, out]: the last call, the
\* environment of the process, the ids Uuid::new_v4 has given out, the text
\* of the call and what it returned.
MaxTui == 3       \* records the file and the table may hold together
PreviewLen == 512

TuiEnv(b) ==
  [backend |-> b, repo_jsonl |-> None, repo_db |-> None, home_jsonl |-> None,
   home_db |-> None]

TuiEnvs ==
  {TuiEnv(None), TuiEnv(Some(Str_sqlite)),
   TuiEnv(Some(<<"S", "q", "l", "i", "t", "e">>))}

\* the n-th id: ids are strings, of which starts_with looks at the front
Uuid(n) == <<IF n % 2 = 1 THEN "a" ELSE "b", DigitSeq[n]>>

starts_with(s, prefix) ==
  Len(prefix) <= Len(s) /\ SubSeq(s, 1, Len(prefix)) = prefix

PrefTexts == {Words(<<"prefer", "ruff">>), Words(<<"Uses", "PyTest">>)}

\* the MemoryItem add_pref builds
PrefItem(id, text) ==
  [PreambleItem(id, "Pref", text, <<"pref">>) EXCEPT !.source = "codex-tui"]

\* records of another store, brought in with the command line's import
ImportedItems ==
  {[PreambleItem(<<"a", "9">>, "Pref", Words(<<"uses", "pytest">>), <<"ci">>)
      EXCEPT !.scope = "Global"],
   PreambleItem(<<"b", "9">>, "Note", Words(<<"remember", "this">>), <<>>)}

InitTui ==
  /\ file = <<>>
  /\ db = {}
  /\ last \in {[op |-> "new", env |-> e, n |-> 0, text |-> <<>>, out |-> None] :
                 e \in TuiEnvs}

\* ids are given out while the bound allows
Room == Len(file) + Cardinality(db) < MaxTui /\ last.n < MaxTui

TuiCall(op, n, text, out) ==
  [op |-> op, env |-> last.env, n |-> n, text |-> text, out |-> out]

\* write_line: append the record to memory.jsonl
write_line(f, value) == Append(f, value)

\* add_pref: [file, db]
add_pref(f, d, env, id, text) ==
  IF sqlite_enabled(env, TRUE)
  THEN IF open_repo_store(None, env, TRUE).backend = "Sqlite"
       THEN [file |-> f, db |-> SqliteAdd(d, PrefItem(id, text)).db]
       ELSE [file |-> JsonlAdd(f, PrefItem(id, text)), db |-> d]
  ELSE [file |-> write_line(f, EventLine(id, "pref", text)), db |-> d]

AddPref(text) ==
  /\ Room
  /\ file' = add_pref(file, db, last.env, Uuid(last.n + 1), text).file
  /\ db' = add_pref(file, db, last.env, Uuid(last.n + 1), text).db
  /\ last' = TuiCall("add_pref", last.n + 1, text, None)

\* add_summary: always an event record
AddSummary(text) ==
  /\ Room
  /\ file' = write_line(file, EventLine(Uuid(last.n + 1), "summary", text))
  /\ last' = TuiCall("add_summary", last.n + 1, text, None)
  /\ UNCHANGED db

\* log_decision: an event record that is not durable
LogDecision(text) ==
  /\ Room
  /\ file' = write_line(file, EventLine(Uuid(last.n + 1), "decision", text))
  /\ last' = TuiCall("log_decision", last.n + 1, text, None)
  /\ UNCHANGED db

\* the command line's import of a one-record stream into the repository store
RepoImport(item) ==
  /\ Room
  /\ IF open_repo_store(None, last.env, TRUE).backend = "Sqlite"
     THEN /\ db' = SqliteImport(db, <<to_string(item)>>).db
          /\ UNCHANGED file
     ELSE /\ \E r \in JsonlImport(file, <<to_string(item)>>) : file' = r.file
          /\ UNCHANGED db
  /\ last' = TuiCall("import", last.n, <<>>, None)

\* build_durable_preamble(max_len), on a store no recall has written to:
\* recall on the repository store, then the text made of what it returned
BuildDurablePreamble(max_len) ==
  /\ Recalled(read_all(file)) = <<>>
  /\ \A r \in db : json_value(r.counters_json).last_used_at = None
  /\ IF open_repo_store(None, last.env, TRUE).backend = "Sqlite"
     THEN \E rs \in SqliteRecall(db, <<>>, PreambleContext(max_len)) :
            /\ db' = rs.db
            /\ last' = TuiCall("build_durable_preamble", last.n, last.text,
                               preamble_of(rs.out, max_len).out)
            /\ UNCHANGED file
     ELSE LET r == JsonlRecall(file, <<>>, PreambleContext(max_len))
          IN  /\ file' = r.file
              /\ last' = TuiCall("build_durable_preamble", last.n, last.text,
                                 preamble_of(r.out, max_len).out)
              /\ UNCHANGED db

\* DurableItem::from_value on the JSON value of a line
from_value(line) ==
  IF line.tag = "event" /\ line.body.type \in {"pref", "summary"}
  THEN Some([id |-> line.body.id, type |-> line.body.type,
             content |-> line.body.content])
  ELSE None

\* list_durable(limit): the possible results
list_durable(f, d, env, limit) ==
  IF sqlite_enabled(env, TRUE)
  THEN LET durable(items) ==
             LET kept == SelectSeq(items, LAMBDA i : i.kind \in {"Pref", "Fact"})
             IN  [k \in 1..Min(Len(kept), limit) |->
                    [id |-> kept[k].id,
                     type |-> IF kept[k].kind = "Pref" THEN "pref" ELSE "summary",
                     content |-> kept[k].content]]
       IN  IF open_repo_store(None, env, TRUE).backend = "Sqlite"
           THEN {IF l.ok THEN durable(l.val) ELSE <<>> :
                   l \in SqliteList(d, Some("Repo"), Some("Active"))}
           ELSE {durable(JsonlList(f, Some("Repo"), Some("Active")))}
  ELSE LET lines == SelectSeq(f, LAMBDA l : from_value(l) # None)
           items == [k \in 1..Len(lines) |-> from_value(lines[k])[1]]
       IN  {IF Len(items) > limit
            THEN SubSeq(items, Len(items) - limit + 1, Len(items)) ELSE items}

\* store.delete(&it.id) for each listed item, in order
RECURSIVE DeleteAllJ(_, _)
DeleteAllJ(f, ids) ==
  IF ids = <<>> THEN f ELSE DeleteAllJ(JsonlDelete(f, ids[1]), Tail(ids))

\* delete_by_prefix(prefix): [file, db, changed]
delete_by_prefix(f, d, env, prefix) ==
  LET hits(items) ==
        SelectSeq(items, LAMBDA i : i.kind \in {"Pref", "Fact"}
                                      /\ starts_with(i.id, prefix))
      gone(line) == /\ line.tag = "event"
                    /\ line.body.type \in {"pref", "summary"}
                    /\ starts_with(line.body.id, prefix)
      out == SelectSeq(f, LAMBDA l : ~gone(l))
  IN  IF prefix = <<>> THEN [file |-> f, db |-> d, changed |-> FALSE]
      ELSE IF sqlite_enabled(env, TRUE)
      THEN IF open_repo_store(None, env, TRUE).backend = "Sqlite"
           THEN LET l == CHOOSE l \in SqliteList(d, Some("Repo"), None) : TRUE
                IN  IF ~l.ok THEN [file |-> f, db |-> d, changed |-> FALSE]
                    ELSE [file |-> f,
                          db |-> {r \in d : \A k \in 1..Len(hits(l.val)) :
                                              hits(l.val)[k].id # r.id},
                          changed |-> hits(l.val) # <<>>]
           ELSE LET h == hits(JsonlList(f, Some("Repo"), None))
                IN  [file |-> DeleteAllJ(f, [k \in 1..Len(h) |-> h[k].id]),
                     db |-> d, changed |-> h # <<>>]
      ELSE [file |-> IF out = f THEN f
                     ELSE IF out = <<>> THEN <<BlankLine>> ELSE out,
            db |-> d, changed |-> out # f]

ListDurable(limit) ==
  /\ \E l \in list_durable(file, db, last.env, limit) :
       last' = TuiCall("list_durable", last.n, <<>>, l)
  /\ UNCHANGED <<file, db>>

Prefixes == {<<>>, <<"a">>, <<"b">>, <<"a", "1">>, <<"c">>}

DeleteByPrefix(prefix) ==
  /\ file' = delete_by_prefix(file, db, last.env, prefix).file
  /\ db' = delete_by_prefix(file, db, last.env, prefix).db
  /\ last' = TuiCall("delete_by_prefix", last.n, prefix,
                     delete_by_prefix(file, db, last.env, prefix).changed)

NextTui ==
  \/ \E text \in PrefTexts : AddPref(text)
  \/ AddSummary(Words(<<"uses", "pytest">>))
  \/ LogDecision(Words(<<"remember", "this">>))
  \/ \E item \in ImportedItems : RepoImport(item)
  \/ BuildDurablePreamble(PreviewLen)
  \/ \E limit \in {1, MaxTui} : ListDurable(limit)
  \/ \E prefix \in Prefixes : DeleteByPrefix(prefix)

SpecTui == InitTui /\ [][NextTui]_vars

\* C39 -- After add_pref(text) the next build_durable_preamble returns a
\* preamble that has the section "Project preferences:" and contains the
\* text in lower case, whatever backend the environment selects.
Visible(out, text) ==
  /\ out # None
  /\ Contains(out[1], <<"P", "r", "o", "j", "e", "c", "t", " ", "p", "r", "e", "f", "e", "r", "e", "n", "c", "e", "s", ":">>)
  /\ Contains(out[1], Map(content_string(text), fold))

C39_PrefVisible ==
  [][last.op = "add_pref" /\ last'.op = "build_durable_preamble"
       => Visible(last'.out, last.text)]_vars


\* C40 -- delete_by_prefix(prefix) removes exactly the durable records whose
\* id starts with prefix (preference and summary records of the memory file,
\* preferences and facts of the store) and leaves every other record of the
\* file or table as it was and in order; an empty prefix removes nothing and
\* returns false; it returns true exactly when a record was removed, and
\* then list_durable returns no item whose id starts with prefix.
Records(f) == SelectSeq(f, LAMBDA l : ~is_blank(l))

InUse(env) ==
  IF sqlite_enabled(env, TRUE) THEN open_repo_store(None, env, TRUE).backend
  ELSE "Events"

DurableLine(env, l) ==
  \/ InUse(env) = "Events" /\ from_value(l) # None
  \/ InUse(env) = "Jsonl" /\ l.tag = "json" /\ l.body.kind \in {"Pref", "Fact"}

DurableRow(env, r) == InUse(env) = "Sqlite" /\ r.kind \in {"pref", "fact"}

C40_DeleteFrame ==
  [][last'.op = "delete_by_prefix" =>
       LET p == last'.text
           env == last.env
           gone(l) == p # <<>> /\ DurableLine(env, l) /\ starts_with(l.body.id, p)
       IN  /\ Records(file') = SelectSeq(Records(file), LAMBDA l : ~gone(l))
           /\ db' = {r \in db : ~(p # <<>> /\ DurableRow(env, r) /\ starts_with(r.id, p))}
           /\ p = <<>> => ~last'.out /\ file' = file /\ db' = db
           /\ last'.out <=> (Records(file') # Records(file) \/ db' # db)
           /\ last'.out =>
                \A l \in list_durable(file', db', env, MaxTui) :
                  \A k \in 1..Len(l) : ~starts_with(l[k].id, p)]_vars

====
